---------------------------- MODULE Spec2Model ----------------------------
(***************************************************************************)
(* LCIA aggregation and grading engine of the FIT API (src/API).          *)
(*                                                                         *)
(* Floats are modelled in fixed point: a scaled value is an integer number *)
(* of thousandths (One = 1.0), math.log is the table LnMilli of            *)
(* floor(1000 * ln x), math.sqrt is the integer square root of the         *)
(* argument taken in millionths.  Raw LCIA values are naturals.            *)
(*                                                                         *)
(* An (item_id, geo_id) pair of a request is one item key; MetaData has    *)
(* item_id as its only primary key (src/API/models.py:60), so an item has  *)
(* one geography.                                                          *)
(*                                                                         *)
(* A Python dict is a function whose DOMAIN is the set of keys; dicts are  *)
(* iterated in ascending key order (the insertion order of the pipeline's  *)
(* lists).  A Python exception is the string of its class name in the      *)
(* "error" field of an operation's outcome, "none" when it returned.       *)
(***************************************************************************)
EXTENDS Integers, Sequences, FiniteSets, TLC

\* ------------------------------------------------------------------ bounds

\* Ordinary impact categories are 1..MaxCat; category 17 is always there.
MaxCat == 2

\* Weighted values and single scores of the data source range over 0..MaxValue.
MaxValue == 1

\* ------------------------------------------------------- program constants

\* The impact category that occurs in the agricultural stage only.
BiodiversityIC == 17

\* The stage category 17 is paired with.
AgricultureStage == 1

\* 1.0 in thousandths: the upper end of the scaled range.
One == 1000

\* assign_grade's thresholds 0.7, 0.5, 0.3, 0.1 in thousandths.
GradeE == 700

GradeD == 500

GradeC == 300

GradeB == 100

\* -------------------------------------------------------------- universes

ImpactCategoryIDs == (1..MaxCat) \cup {BiodiversityIC}

\* The stages of the default pipeline (main.py: 1, 2, 4, 5).
PipelineStages == {1, 2, 4, 5}

\* The categories and stages of the pipeline specifications: one ordinary
\* category and category 17, and the first two stages of main.py's list.
ModelCategories == {1, BiodiversityIC}

ModelStages == <<1, 2>>

\* The items of the data source, their geographies, and the (min, max) pairs
\* scheme-wide bounds are drawn from.
ItemIDs == {"i1", "i2"}

GeoOf == [i \in ItemIDs |-> IF i = "i1" THEN 1 ELSE 2]

BoundPairs == {<<0, 1>>, <<0, 3>>, <<1, 2>>}

\* The scaled values assign_grade is probed with: every threshold, its
\* neighbours, and values outside [0,1].
ProbeScaled ==
    {50 * k : k \in -2..22} \cup {GradeB - 1, GradeC - 1, GradeD - 1, GradeE - 1, One + 1}

\* Sequences over S without repetition, in every order.
DistinctSeqs(S) ==
    UNION {{f \in [1..n -> S] : \A i, j \in 1..n : f[i] = f[j] => i = j}
           : n \in 0..Cardinality(S)}

\* S as the ascending sequence of its elements (S a finite set of integers).
RECURSIVE SortedSeq(_)
SortedSeq(S) ==
    IF S = {} THEN <<>>
    ELSE LET m == CHOOSE x \in S : \A y \in S : x <= y
         IN <<m>> \o SortedSeq(S \ {m})

Range(f) == {f[x] : x \in DOMAIN f}

\* ------------------------------------------------------------- arithmetic

\* math.log on 1..40 in thousandths, rounded down.
LnMilli ==
    << 0, 693, 1098, 1386, 1609, 1791, 1945, 2079, 2197, 2302,
       2397, 2484, 2564, 2639, 2708, 2772, 2833, 2890, 2944, 2995,
       3044, 3091, 3135, 3178, 3218, 3258, 3295, 3332, 3367, 3401,
       3433, 3465, 3496, 3526, 3555, 3583, 3610, 3637, 3663, 3688 >>

\* The integer square root by bisection: the r in lo..hi with r*r <= x < (r+1)^2.
RECURSIVE ISqrtIn(_, _, _)
ISqrtIn(x, lo, hi) ==
    IF lo >= hi THEN lo
    ELSE LET mid == (lo + hi + 1) \div 2
         IN IF mid * mid <= x THEN ISqrtIn(x, mid, hi) ELSE ISqrtIn(x, lo, mid - 1)

ISqrt(x) == ISqrtIn(x, 0, 46340)

\* math.sqrt(n) in thousandths, rounded down.
SqrtMilli(n) == ISqrt(n * One * One)

\* Sum of f[x] over the keys x in S.
RECURSIVE SumOver(_, _)
SumOver(S, f) ==
    IF S = {} THEN 0
    ELSE LET x == CHOOSE y \in S : TRUE
         IN f[x] + SumOver(S \ {x}, f)

\* ---------------------------------------------------------------- schemas

\* Optional[ItemID] and Optional[GeoID] left at their default None.
NoneItem == "None"

NoneGeo == 0

\* A pydantic model built from keyword arguments: every required field must
\* be given (extra fields are forbidden), optional fields take their default.
Construct(required, defaults, kwargs) ==
    IF required \subseteq DOMAIN kwargs
          /\ DOMAIN kwargs \subseteq (required \cup DOMAIN defaults)
    THEN [error |-> "none",
          value |-> {[f \in required \cup DOMAIN defaults |->
                        IF f \in DOMAIN kwargs THEN kwargs[f] ELSE defaults[f]]}]
    ELSE [error |-> "ValidationError", value |-> {}]

\* schemas.LCIAResult: eight fields, none with a default.
LCIAResult(kwargs) ==
    Construct({"item_id", "geo_id", "proxy_flag", "single_score", "stage_values",
               "impact_category_values", "ic_normalization", "lc_normalization"},
              <<>>, kwargs)

\* schemas.GradedLCIAResult: item_id and geo_id default to None, the rest is required.
GradedLCIAResult(kwargs) ==
    Construct({"proxy_flag", "single_score", "stage_values", "impact_category_values"},
              [item_id |-> NoneItem, geo_id |-> NoneGeo], kwargs)

\* A range check that lets every value through.
any_scaled_value(v) == TRUE

\* GradedLCIAValue.check_scaled_range: 0 <= v <= 1.
check_scaled_range(v) == 0 <= v /\ v <= One

\* assign_grade with every threshold compared by > instead of >=.
assign_grade_exclusive(scaled_value) ==
    IF scaled_value > GradeE THEN "E"
    ELSE IF scaled_value > GradeD THEN "D"
    ELSE IF scaled_value > GradeC THEN "C"
    ELSE IF scaled_value > GradeB THEN "B"
    ELSE "A"

\* GradedLCIAValue.assign_grade.
assign_grade(scaled_value) ==
    IF scaled_value >= GradeE THEN "E"
    ELSE IF scaled_value >= GradeD THEN "D"
    ELSE IF scaled_value >= GradeC THEN "C"
    ELSE IF scaled_value >= GradeB THEN "B"
    ELSE "A"

\* A GradedLCIAValue that passed check_scaled_range.
GradedLCIAValue(lcia_value, scaled_value, grade) ==
    [lcia_value |-> lcia_value, scaled_value |-> scaled_value, grade |-> grade]

\* The three validators comparing with > instead of >=.
min_max_inverted(kwargs) ==
    \/ kwargs.single_score_min > kwargs.single_score_max
    \/ \E ic_id \in DOMAIN kwargs.ic_mins \cap DOMAIN kwargs.ic_maxs :
          kwargs.ic_mins[ic_id] > kwargs.ic_maxs[ic_id]
    \/ \E lc_id \in DOMAIN kwargs.lc_mins \cap DOMAIN kwargs.lc_maxs :
          kwargs.lc_mins[lc_id] > kwargs.lc_maxs[lc_id]

\* MinMaxValues' three model validators: the constructor raises
\* MinMaxValidationError when some min >= max.  The dict checks are skipped
\* for an empty dict (`if ic_mins and ic_maxs`) and for a key without a max.
min_max_invalid(kwargs) ==
    \/ kwargs.single_score_min >= kwargs.single_score_max
    \/ /\ DOMAIN kwargs.ic_mins # {} /\ DOMAIN kwargs.ic_maxs # {}
       /\ \E ic_id \in DOMAIN kwargs.ic_mins :
            /\ ic_id \in DOMAIN kwargs.ic_maxs
            /\ kwargs.ic_mins[ic_id] >= kwargs.ic_maxs[ic_id]
    \/ /\ DOMAIN kwargs.lc_mins # {} /\ DOMAIN kwargs.lc_maxs # {}
       /\ \E lc_id \in DOMAIN kwargs.lc_mins :
            /\ lc_id \in DOMAIN kwargs.lc_maxs
            /\ kwargs.lc_mins[lc_id] >= kwargs.lc_maxs[lc_id]

\* schemas.MinMaxValues(...): the record, or MinMaxValidationError.
MinMaxValues(kwargs) ==
    IF min_max_invalid(kwargs)
    THEN [error |-> "MinMaxValidationError", value |-> {}]
    ELSE [error |-> "none", value |-> {kwargs}]

\* -------------------------------------------------------------- processors

\* log_scale divides by ln(max+1) - ln(min+1) and by sqrt(normalization):
\* ZeroDivisionError when either is zero.
log_scale_raises(min_value, max_value, normalization) ==
    \/ LnMilli[max_value + 1] = LnMilli[min_value + 1]
    \/ SqrtMilli(normalization) = 0

\* A scaling that divides by the normalization count, not by its square root.
log_scale_by_count(value, min_value, max_value, normalization) ==
    LET scaled_value ==
            ((LnMilli[value + 1] - LnMilli[min_value + 1]) * One)
                \div (LnMilli[max_value + 1] - LnMilli[min_value + 1])
    IN scaled_value \div normalization

\* processors.log_scale, for min_value < max_value and normalization >= 1.
log_scale(value, min_value, max_value, normalization) ==
    LET adjusted_value == value + 1
        adjusted_min == min_value + 1
        adjusted_max == max_value + 1
        scaled_value ==
            ((LnMilli[adjusted_value] - LnMilli[adjusted_min]) * One)
                \div (LnMilli[adjusted_max] - LnMilli[adjusted_min])
    IN (scaled_value * One) \div SqrtMilli(normalization)

\* processors.generate_expected_combinations (and its copy in
\* processors_optimized): the loop over the category list.
RECURSIVE expected_from(_, _, _, _)
expected_from(i, acc, impact_categories, lc_stages) ==
    IF i > Len(impact_categories) THEN acc
    ELSE LET ic_id == impact_categories[i]
         IN expected_from(
                i + 1,
                IF ic_id = BiodiversityIC
                THEN acc \cup {<<ic_id, AgricultureStage>>}
                ELSE acc \cup {<<ic_id, lc_stages[k]>> : k \in 1..Len(lc_stages)},
                impact_categories, lc_stages)

\* generate_expected_combinations without the special case of category 17.
generate_every_combination(impact_categories, lc_stages) ==
    {<<impact_categories[i], lc_stages[k]>> :
        i \in 1..Len(impact_categories), k \in 1..Len(lc_stages)}

generate_expected_combinations(impact_categories, lc_stages) ==
    expected_from(1, {}, impact_categories, lc_stages)

\* The required set bulk_fetch_weighted_results builds inline
\* (crud_optimizations.py:147-153) with the literals 17 and 1.
RECURSIVE bulk_expected_from(_, _, _, _)
bulk_expected_from(i, acc, impact_categories, life_cycle_stages) ==
    IF i > Len(impact_categories) THEN acc
    ELSE LET ic == impact_categories[i]
         IN bulk_expected_from(
                i + 1,
                IF ic = 17
                THEN acc \cup {<<ic, 1>>}
                ELSE acc \cup {<<ic, life_cycle_stages[k]>> :
                                  k \in 1..Len(life_cycle_stages)},
                impact_categories, life_cycle_stages)

bulk_expected_combinations(impact_categories, life_cycle_stages) ==
    bulk_expected_from(1, {}, impact_categories, life_cycle_stages)

\* An aggregation loop that adds a pair to its category only when it did not
\* add it to its stage.
RECURSIVE sum_weighted_either(_, _, _)
sum_weighted_either(pairs, weighted_results, acc) ==
    IF pairs = <<>> THEN acc
    ELSE LET impact_category_id == Head(pairs)[1]
             life_cycle_stage == Head(pairs)[2]
             lcia_value == weighted_results[Head(pairs)]
             with_either ==
                 IF life_cycle_stage \in DOMAIN acc.stage_values
                 THEN [acc EXCEPT
                         !.stage_values[life_cycle_stage] = @ + lcia_value,
                         !.ic_normalization[life_cycle_stage] = @ + 1]
                 ELSE IF impact_category_id \in DOMAIN acc.impact_category_values
                 THEN [acc EXCEPT
                         !.impact_category_values[impact_category_id] = @ + lcia_value,
                         !.lc_normalization[impact_category_id] = @ + 1]
                 ELSE acc
         IN sum_weighted_either(Tail(pairs), weighted_results, with_either)

\* Steps 3 to 5 of processors.get_results, repeated verbatim in
\* processors_optimized.process_single_item_results: every selected stage and
\* category starts at value 0 and count 0, then each fetched pair is added to
\* its stage and to its category when that key is selected.
RECURSIVE sum_weighted(_, _, _)
sum_weighted(pairs, weighted_results, acc) ==
    IF pairs = <<>> THEN acc
    ELSE LET impact_category_id == Head(pairs)[1]
             life_cycle_stage == Head(pairs)[2]
             lcia_value == weighted_results[Head(pairs)]
             with_stage ==
                 IF life_cycle_stage \in DOMAIN acc.stage_values
                 THEN [acc EXCEPT
                         !.stage_values[life_cycle_stage] = @ + lcia_value,
                         !.ic_normalization[life_cycle_stage] = @ + 1]
                 ELSE acc
             with_category ==
                 IF impact_category_id \in DOMAIN with_stage.impact_category_values
                 THEN [with_stage EXCEPT
                         !.impact_category_values[impact_category_id] = @ + lcia_value,
                         !.lc_normalization[impact_category_id] = @ + 1]
                 ELSE with_stage
         IN sum_weighted(Tail(pairs), weighted_results, with_category)

\* The pairs of a fetched dict in iteration order (ascending category, then stage).
RECURSIVE PairSeq(_)
PairSeq(S) ==
    IF S = {} THEN <<>>
    ELSE LET m == CHOOSE p \in S :
                    \A q \in S : p[1] < q[1] \/ (p[1] = q[1] /\ p[2] <= q[2])
         IN <<m>> \o PairSeq(S \ {m})

\* aggregate summing the required pairs only, not every fetched pair.
aggregate_expected_only(weighted_results, impact_categories, life_cycle_stages) ==
    sum_weighted(
        PairSeq(DOMAIN weighted_results
                  \cap generate_expected_combinations(impact_categories, life_cycle_stages)),
        weighted_results,
        [stage_values |-> [s \in Range(life_cycle_stages) |-> 0],
         ic_normalization |-> [s \in Range(life_cycle_stages) |-> 0],
         impact_category_values |-> [c \in Range(impact_categories) |-> 0],
         lc_normalization |-> [c \in Range(impact_categories) |-> 0]])

aggregate(weighted_results, impact_categories, life_cycle_stages) ==
    sum_weighted(
        PairSeq(DOMAIN weighted_results), weighted_results,
        [stage_values |-> [s \in Range(life_cycle_stages) |-> 0],
         ic_normalization |-> [s \in Range(life_cycle_stages) |-> 0],
         impact_category_values |-> [c \in Range(impact_categories) |-> 0],
         lc_normalization |-> [c \in Range(impact_categories) |-> 0]])

\* processors_optimized.process_single_item_results: the aggregation, then
\* LCIAResult(...) with all eight fields.  A ValidationError of the
\* constructor is not an exceptions.ValueError and ends as UnknownError.
process_single_item_results(item_id, geo_id, proxy_flag, weighted_results, single_score, impact_categories, life_cycle_stages) ==
    LET acc == aggregate(weighted_results, impact_categories, life_cycle_stages)
        built == LCIAResult(
                    [item_id |-> item_id, geo_id |-> geo_id, proxy_flag |-> proxy_flag,
                     single_score |-> single_score,
                     stage_values |-> acc.stage_values,
                     impact_category_values |-> acc.impact_category_values,
                     ic_normalization |-> acc.ic_normalization,
                     lc_normalization |-> acc.lc_normalization])
    IN IF built.error = "none"
       THEN [error |-> "none", cause |-> "none", value |-> built.value]
       ELSE [error |-> "UnknownError", cause |-> built.error, value |-> {}]

\* The dimensions apply_grading_scheme grades, in its order: the single
\* score, the stages of stage_values, the categories of impact_category_values.
GradingOrder(lcia_result) ==
    <<<<"single", 0>>>>
    \o [i \in 1..Cardinality(DOMAIN lcia_result.stage_values) |->
          <<"stage", SortedSeq(DOMAIN lcia_result.stage_values)[i]>>]
    \o [i \in 1..Cardinality(DOMAIN lcia_result.impact_category_values) |->
          <<"ic", SortedSeq(DOMAIN lcia_result.impact_category_values)[i]>>]

\* The raw value, the bounds and the normalization apply_grading_scheme
\* reads for one dimension.
RawOf(lcia_result, d) ==
    IF d[1] = "single" THEN lcia_result.single_score
    ELSE IF d[1] = "stage" THEN lcia_result.stage_values[d[2]]
    ELSE lcia_result.impact_category_values[d[2]]

BoundsKnown(min_max_values, d) ==
    IF d[1] = "single" THEN TRUE
    ELSE IF d[1] = "stage"
    THEN d[2] \in DOMAIN min_max_values.lc_mins /\ d[2] \in DOMAIN min_max_values.lc_maxs
    ELSE d[2] \in DOMAIN min_max_values.ic_mins /\ d[2] \in DOMAIN min_max_values.ic_maxs

MinOf(min_max_values, d) ==
    IF d[1] = "single" THEN min_max_values.single_score_min
    ELSE IF d[1] = "stage" THEN min_max_values.lc_mins[d[2]]
    ELSE min_max_values.ic_mins[d[2]]

MaxOf(min_max_values, d) ==
    IF d[1] = "single" THEN min_max_values.single_score_max
    ELSE IF d[1] = "stage" THEN min_max_values.lc_maxs[d[2]]
    ELSE min_max_values.ic_maxs[d[2]]

NormalizationOf(lcia_result, d) ==
    IF d[1] = "single" THEN 1
    ELSE IF d[1] = "stage" THEN lcia_result.ic_normalization[d[2]]
    ELSE lcia_result.lc_normalization[d[2]]

\* The value apply_grading_scheme hands to log_scale for one dimension: the
\* raw value as it is.
ScalingInput(lcia_result, min_max_values, d) == RawOf(lcia_result, d)

ScaledOf(lcia_result, min_max_values, d) ==
    log_scale(ScalingInput(lcia_result, min_max_values, d),
              MinOf(min_max_values, d), MaxOf(min_max_values, d),
              NormalizationOf(lcia_result, d))

\* How grading one dimension ends: a missing bound is a KeyError, a zero
\* divisor a ZeroDivisionError, a scaled value outside [0,1] the ValueError
\* apply_grading_scheme raises from GradedLCIAValue's ValidationError.
GradeStepError(lcia_result, min_max_values, d) ==
    IF ~BoundsKnown(min_max_values, d) THEN "KeyError"
    ELSE IF log_scale_raises(MinOf(min_max_values, d), MaxOf(min_max_values, d),
                             NormalizationOf(lcia_result, d))
    THEN "ZeroDivisionError"
    ELSE IF ~check_scaled_range(ScaledOf(lcia_result, min_max_values, d))
    THEN "ValueError"
    ELSE "none"

\* The keyword arguments of apply_grading_scheme's final GradedLCIAResult(...).
graded_result_kwargs(lcia_result, graded_values) ==
    [item_id |-> lcia_result.item_id,
     geo_id |-> lcia_result.geo_id,
     single_score |-> graded_values[<<"single", 0>>],
     stage_values |-> [s \in DOMAIN lcia_result.stage_values |->
                         graded_values[<<"stage", s>>]],
     impact_category_values |-> [c \in DOMAIN lcia_result.impact_category_values |->
                                   graded_values[<<"ic", c>>]]]

\* processors.apply_grading_scheme.  The outcome keeps what the call computed
\* before it ended: scaled_values (log_scale's results), graded_values (the
\* GradedLCIAValues built), and value (the GradedLCIAResult returned, if any).
apply_grading_scheme(lcia_result, min_max_values) ==
    LET order == GradingOrder(lcia_result)
        failing == {i \in 1..Len(order) :
                      GradeStepError(lcia_result, min_max_values, order[i]) # "none"}
        stop == IF failing = {} THEN Len(order) + 1
                ELSE CHOOSE i \in failing : \A k \in failing : i <= k
        step_error == IF failing = {} THEN "none"
                      ELSE GradeStepError(lcia_result, min_max_values, order[stop])
        graded_values ==
            [d \in {order[i] : i \in 1..(stop - 1)} |->
               GradedLCIAValue(RawOf(lcia_result, d),
                               ScaledOf(lcia_result, min_max_values, d),
                               assign_grade(ScaledOf(lcia_result, min_max_values, d)))]
        scaled_values ==
            [d \in {order[i] : i \in 1..(stop - 1)}
                   \cup (IF step_error = "ValueError" THEN {order[stop]} ELSE {}) |->
               ScaledOf(lcia_result, min_max_values, d)]
        built == IF step_error = "none"
                 THEN GradedLCIAResult(graded_result_kwargs(lcia_result, graded_values))
                 ELSE [error |-> step_error, value |-> {}]
    IN [error |-> built.error, value |-> built.value,
        scaled_values |-> scaled_values, graded_values |-> graded_values]

\* Arguments a grading call would leave behind had it taken the stage
\* values out of lcia_result while grading them.
consumed_arguments(lcia_result, min_max_values) ==
    [lcia_result |-> [lcia_result EXCEPT !.stage_values = <<>>],
     min_max_values |-> min_max_values]

\* The arguments of apply_grading_scheme as its caller finds them after the
\* call: the function reads lcia_result and min_max_values and assigns to no
\* field of either; graded_single_score, graded_stages and
\* graded_impact_categories are new objects.
graded_arguments(lcia_result, min_max_values) ==
    [lcia_result |-> lcia_result, min_max_values |-> min_max_values]

\* ------------------------------------------------------------ data source

\* The tables of one weighting scheme.  db.weighted[item] is the item's rows
\* of WeightedResults, a dict from (ic_id, lc_stage_id) to weighted_value;
\* db.single holds the rows of SingleScores, keyed by item; db.proxy is
\* MetaData.proxy_flag.
PartialFns(D, V) == UNION {[S -> V] : S \in SUBSET D}

\* The rows of an item a query with ic_id IN ic_ids and lc_stage_id IN
\* lc_stage_ids returns.
weighted_rows(db, item_id, ic_ids, lc_stage_ids) ==
    [p \in {q \in DOMAIN db.weighted[item_id] : q[1] \in ic_ids /\ q[2] \in lc_stage_ids}
        |-> db.weighted[item_id][p]]

\* A MissingLCIAValueError as (table, item, category, stage); 0 stands for a
\* stage or category left None.
MissingLCIAValueError(table_name, item_id, ic_id, stage_id) ==
    <<table_name, item_id, ic_id, stage_id>>

\* crud.fetch_results_from_weighted_results: the rows whose category and
\* stage occur in expected_combinations.  Only an empty result raises
\* MissingLCIAValueError, and the function's own `except Exception` turns it
\* into UnknownError.
fetch_results_from_weighted_results(db, item_id, expected_combinations) ==
    LET ic_ids == {p[1] : p \in expected_combinations}
        lc_stage_ids == {p[2] : p \in expected_combinations}
        results == weighted_rows(db, item_id, ic_ids, lc_stage_ids)
    IN IF DOMAIN results = {}
       THEN [error |-> "UnknownError", cause |-> "MissingLCIAValueError",
             value |-> results,
             missing |-> {MissingLCIAValueError("WeightedResults", item_id, 0, 0)}]
       ELSE [error |-> "none", cause |-> "none", value |-> results, missing |-> {}]

\* crud.fetch_result_from_single_scores, with the same wrapping of its
\* MissingLCIAValueError.
fetch_result_from_single_scores(db, item_id) ==
    IF item_id \notin DOMAIN db.single
    THEN [error |-> "UnknownError", cause |-> "MissingLCIAValueError", value |-> {},
          missing |-> {MissingLCIAValueError("SingleScores", item_id, 0, 0)}]
    ELSE [error |-> "none", cause |-> "none", value |-> {db.single[item_id]},
          missing |-> {}]

\* The outcome of building item results: the error raised ("none" when the
\* call returned), the exception it was raised from, the LCIAResults returned
\* (value), the missing values the raised error carries, and per item the
\* dict that was fetched and the sums and counts computed from it.
ResultsOutcome(error, cause, value, missing, fetched, aggregated) ==
    [error |-> error, cause |-> cause, value |-> value, missing |-> missing,
     fetched |-> fetched, aggregated |-> aggregated]

\* processors.get_results for one item.  A failed fetch arrives as the
\* UnknownError crud raised and is wrapped again; LCIAResult(...) is called
\* without proxy_flag, and its ValidationError ends as UnknownError.
get_results(db, item_id, geo_id, impact_categories, life_cycle_stages) ==
    LET expected_combinations ==
            generate_expected_combinations(impact_categories, life_cycle_stages)
        weighted == fetch_results_from_weighted_results(db, item_id, expected_combinations)
        acc == aggregate(weighted.value, impact_categories, life_cycle_stages)
        single == fetch_result_from_single_scores(db, item_id)
        fetched == [i \in {item_id} |-> weighted.value]
        aggregated == [i \in {item_id} |-> acc]
    IN IF weighted.error # "none"
       THEN ResultsOutcome("UnknownError", weighted.cause, <<>>, weighted.missing,
                           <<>>, <<>>)
       ELSE IF single.error # "none"
       THEN ResultsOutcome("UnknownError", single.cause, <<>>, single.missing,
                           fetched, aggregated)
       ELSE LET built == LCIAResult(
                    [item_id |-> item_id, geo_id |-> geo_id,
                     single_score |-> CHOOSE v \in single.value : TRUE,
                     stage_values |-> acc.stage_values,
                     impact_category_values |-> acc.impact_category_values,
                     ic_normalization |-> acc.ic_normalization,
                     lc_normalization |-> acc.lc_normalization])
            IN IF built.error = "none"
               THEN ResultsOutcome("none", "none",
                                   <<CHOOSE r \in built.value : TRUE>>, {},
                                   fetched, aggregated)
               ELSE ResultsOutcome("UnknownError", built.error, <<>>, {},
                                   fetched, aggregated)

\* The item loop of main.calculate_recipe (main.py:440-456): get_proxy_flag
\* and get_results item by item; the first exception ends the request.
RECURSIVE get_results_each(_, _, _, _, _)
get_results_each(db, items, impact_categories, lc_stages, done) ==
    IF items = <<>> THEN done
    ELSE LET item_id == Head(items)
             one == get_results(db, item_id, GeoOf[item_id], impact_categories, lc_stages)
             fetched == one.fetched @@ done.fetched
             aggregated == one.aggregated @@ done.aggregated
         IN IF one.error # "none"
            THEN ResultsOutcome(one.error, one.cause, done.value, one.missing,
                                fetched, aggregated)
            ELSE get_results_each(
                     db, Tail(items), impact_categories, lc_stages,
                     ResultsOutcome("none", "none", done.value \o one.value, {},
                                    fetched, aggregated))

\* crud_optimizations.bulk_fetch_weighted_results: one query for all items,
\* then every required pair of every item is looked up and all the missing
\* ones are raised together.
bulk_fetch_weighted_results(db, items, impact_categories, life_cycle_stages) ==
    LET ic_ids == Range(impact_categories)
        lc_stage_ids == Range(life_cycle_stages)
        rows == [i \in Range(items) |-> weighted_rows(db, i, ic_ids, lc_stage_ids)]
        weighted_dict == [i \in {k \in Range(items) : DOMAIN rows[k] # {}} |-> rows[i]]
        expected_combinations ==
            bulk_expected_combinations(impact_categories, life_cycle_stages)
        missing_errors ==
            UNION {{MissingLCIAValueError("weightedresults", i, p[1], p[2]) :
                       p \in expected_combinations \ DOMAIN rows[i]}
                   : i \in Range(items)}
    IN IF missing_errors # {}
       THEN [error |-> "MultipleMissingLCIAValueErrors", value |-> <<>>,
             missing |-> missing_errors]
       ELSE [error |-> "none", value |-> weighted_dict, missing |-> {}]

\* crud_optimizations.bulk_fetch_single_scores.
bulk_fetch_single_scores(db, items) ==
    LET score_dict == [i \in Range(items) \cap DOMAIN db.single |-> db.single[i]]
        missing_keys == Range(items) \ DOMAIN score_dict
    IN IF missing_keys # {}
       THEN [error |-> "MultipleMissingLCIAValueErrors", value |-> <<>>,
             missing |-> {MissingLCIAValueError("singlescores", i, 0, 0) :
                             i \in missing_keys}]
       ELSE [error |-> "none", value |-> score_dict, missing |-> {}]

\* The loop of get_results_bulk over the items, on the pre-fetched data.  A
\* key missing from weighted_data is a KeyError, which ends as UnknownError.
RECURSIVE process_items(_, _, _, _, _, _, _)
process_items(db, items, weighted_data, single_score_data, impact_categories, life_cycle_stages, done) ==
    IF items = <<>> THEN done
    ELSE LET item_id == Head(items)
         IN IF item_id \notin DOMAIN weighted_data
            THEN ResultsOutcome("UnknownError", "KeyError", done.value, {},
                                done.fetched, done.aggregated)
            ELSE LET one == process_single_item_results(
                                item_id, GeoOf[item_id], db.proxy[item_id],
                                weighted_data[item_id], single_score_data[item_id],
                                impact_categories, life_cycle_stages)
                     fetched == [i \in {item_id} |-> weighted_data[item_id]] @@ done.fetched
                     aggregated ==
                         [i \in {item_id} |->
                            aggregate(weighted_data[item_id], impact_categories,
                                      life_cycle_stages)] @@ done.aggregated
                 IN IF one.error # "none"
                    THEN ResultsOutcome(one.error, one.cause, done.value, {},
                                        fetched, aggregated)
                    ELSE process_items(
                             db, Tail(items), weighted_data, single_score_data,
                             impact_categories, life_cycle_stages,
                             ResultsOutcome("none", "none",
                                            Append(done.value, CHOOSE r \in one.value : TRUE),
                                            {}, fetched, aggregated))

\* processors_optimized.get_results_bulk: no items, no results; otherwise the
\* proxy flags, the weighted results and the single scores are fetched in
\* this order, and the first fetch that raises ends the call.
get_results_bulk(db, items, impact_categories, life_cycle_stages) ==
    LET weighted_data ==
            bulk_fetch_weighted_results(db, items, impact_categories, life_cycle_stages)
        single_score_data == bulk_fetch_single_scores(db, items)
        nothing == ResultsOutcome("none", "none", <<>>, {}, <<>>, <<>>)
    IN IF items = <<>> THEN nothing
       ELSE IF weighted_data.error # "none"
       THEN ResultsOutcome(weighted_data.error, "none", <<>>, weighted_data.missing,
                           <<>>, <<>>)
       ELSE IF single_score_data.error # "none"
       THEN ResultsOutcome(single_score_data.error, "none", <<>>,
                           single_score_data.missing, <<>>, <<>>)
       ELSE process_items(db, items, weighted_data.value, single_score_data.value,
                          impact_categories, life_cycle_stages, nothing)

\* ----------------------------------------------------------- scaling bounds

MinOfSet(S) == CHOOSE x \in S : \A y \in S : x <= y

MaxOfSet(S) == CHOOSE x \in S : \A y \in S : x >= y

\* The weighted_value column of the rows of the items in `of_items` that
\* satisfy `column = id` (column 1 is ic_id, column 2 is lc_stage_id), and
\* the single_score column of their rows of SingleScores.
weighted_values(db, of_items, column, id) ==
    UNION {{db.weighted[i][p] : p \in {q \in DOMAIN db.weighted[i] : q[column] = id}}
           : i \in of_items}

single_scores(db, of_items) == {db.single[i] : i \in of_items \cap DOMAIN db.single}

\* The outcome of computing the bounds: the error raised, the exception it
\* was raised from, and the MinMaxValues returned (a set with at most one).
BoundsOutcome(error, cause, value) == [error |-> error, cause |-> cause, value |-> value]

\* The dicts of the per-category and per-stage minima or maxima.
bound_dicts(single_min, single_max, ic_keys, lc_keys, ic_values, lc_values) ==
    [scheme_id |-> 1,
     single_score_min |-> single_min,
     single_score_max |-> single_max,
     ic_mins |-> [c \in ic_keys |-> MinOfSet(ic_values[c])],
     ic_maxs |-> [c \in ic_keys |-> MaxOfSet(ic_values[c])],
     lc_mins |-> [t \in lc_keys |-> MinOfSet(lc_values[t])],
     lc_maxs |-> [t \in lc_keys |-> MaxOfSet(lc_values[t])]]

\* crud.get_min_max_values: func.min and func.max over every row of the
\* scheme, whatever the item's proxy_flag.  A dimension without a row raises
\* MinMaxValueNotFoundError; that and the constructor's MinMaxValidationError
\* leave through `except Exception` as UnknownError.
get_min_max_values(db, impact_category_ids, lc_stage_ids) ==
    LET every_item == DOMAIN db.weighted
        singles == single_scores(db, every_item)
        ic_values == [c \in Range(impact_category_ids) |->
                        weighted_values(db, every_item, 1, c)]
        lc_values == [t \in Range(lc_stage_ids) |->
                        weighted_values(db, every_item, 2, t)]
    IN IF \/ singles = {}
          \/ \E c \in DOMAIN ic_values : ic_values[c] = {}
          \/ \E t \in DOMAIN lc_values : lc_values[t] = {}
       THEN BoundsOutcome("UnknownError", "MinMaxValueNotFoundError", {})
       ELSE LET built == MinMaxValues(
                    bound_dicts(MinOfSet(singles), MaxOfSet(singles),
                                DOMAIN ic_values, DOMAIN lc_values, ic_values, lc_values))
            IN IF built.error = "none"
               THEN BoundsOutcome("none", "none", built.value)
               ELSE BoundsOutcome("UnknownError", built.error, {})

\* crud_optimizations.bulk_fetch_min_max_values: the rows are joined with
\* MetaData and kept when proxy_flag is False; GROUP BY returns the
\* categories and stages that have such a row; the single-score bounds are
\* 0.0 when no such row exists.
bulk_fetch_min_max_values(db, impact_category_ids, lc_stage_ids) ==
    LET non_proxy == {i \in DOMAIN db.weighted : db.proxy[i] = FALSE}
        singles == single_scores(db, non_proxy)
        ic_values == [c \in Range(impact_category_ids) |->
                        weighted_values(db, non_proxy, 1, c)]
        lc_values == [t \in Range(lc_stage_ids) |->
                        weighted_values(db, non_proxy, 2, t)]
        built == MinMaxValues(
                    bound_dicts(IF singles = {} THEN 0 ELSE MinOfSet(singles),
                                IF singles = {} THEN 0 ELSE MaxOfSet(singles),
                                {c \in DOMAIN ic_values : ic_values[c] # {}},
                                {t \in DOMAIN lc_values : lc_values[t] # {}},
                                ic_values, lc_values))
    IN IF built.error = "none"
       THEN BoundsOutcome("none", "none", built.value)
       ELSE BoundsOutcome("UnknownError", built.error, {})

\* The list comprehension that grades the item results
\* (recipe_optimized.py:88, main.py:462): the outcomes of apply_grading_scheme
\* item by item, up to the first one that raises.
grade_each(item_results, min_max) ==
    LET outs == [k \in 1..Len(item_results) |->
                    apply_grading_scheme(item_results[k], min_max)]
        failing == {k \in 1..Len(item_results) : outs[k].error # "none"}
        last == IF failing = {} THEN Len(item_results)
                ELSE CHOOSE k \in failing : \A m \in failing : k <= m
    IN [k \in 1..last |-> outs[k]]

\* ----------------------------------------------------------------- recipe

RECURSIVE SumSquares(_)
SumSquares(values) ==
    IF values = <<>> THEN 0
    ELSE Head(values) * Head(values) + SumSquares(Tail(values))

\* A combined grade that is the scaled value of the first item of the list.
first_scaled_value(scaled_lcia_values) ==
    IF scaled_lcia_values = <<>> THEN 0 ELSE scaled_lcia_values[1]

\* The Euclidean norm alone, not divided by sqrt(len).
euclidean_norm(scaled_lcia_values) ==
    ISqrt(SumSquares(scaled_lcia_values))

\* processors.get_combined_grade for at least one value:
\* sqrt(sum of squares) / sqrt(len).  Without a value it divides by zero.
get_combined_grade(scaled_lcia_values) ==
    (ISqrt(SumSquares(scaled_lcia_values)) * One) \div SqrtMilli(Len(scaled_lcia_values))

\* The graded value an item result holds for a dimension.
GradedOf(result, d) ==
    IF d[1] = "single" THEN result.single_score
    ELSE IF d[1] = "stage" THEN result.stage_values[d[2]]
    ELSE result.impact_category_values[d[2]]

Supplies(result, d) ==
    IF d[1] = "single" THEN TRUE
    ELSE IF d[1] = "stage" THEN d[2] \in DOMAIN result.stage_values
    ELSE d[2] \in DOMAIN result.impact_category_values

\* A list with one entry per result: 0 for a result without the dimension.
RECURSIVE scores_of_every_result(_, _)
scores_of_every_result(graded_lcia_results, d) ==
    IF graded_lcia_results = <<>> THEN <<>>
    ELSE <<IF Supplies(Head(graded_lcia_results), d)
           THEN GradedOf(Head(graded_lcia_results), d).scaled_value
           ELSE 0>> \o scores_of_every_result(Tail(graded_lcia_results), d)

\* The list total_*_scores[d] of calculate_recipe: the scaled values of the
\* results that have the dimension, in list order.
RECURSIVE total_scores(_, _)
total_scores(graded_lcia_results, d) ==
    IF graded_lcia_results = <<>> THEN <<>>
    ELSE (IF Supplies(Head(graded_lcia_results), d)
          THEN <<GradedOf(Head(graded_lcia_results), d).scaled_value>>
          ELSE <<>>) \o total_scores(Tail(graded_lcia_results), d)

\* A total that keeps the last item's raw value (= in place of +=).
RECURSIVE last_raw_value(_, _)
last_raw_value(graded_lcia_results, d) ==
    IF graded_lcia_results = <<>> THEN 0
    ELSE LET rest == last_raw_value(Tail(graded_lcia_results), d)
             later == \E k \in 2..Len(graded_lcia_results) :
                          Supplies(graded_lcia_results[k], d)
         IN IF later \/ ~Supplies(Head(graded_lcia_results), d) THEN rest
            ELSE GradedOf(Head(graded_lcia_results), d).lcia_value

\* total_*_raw_values[d] of calculate_recipe: 0, then += lcia_value for every
\* result that has the dimension.
RECURSIVE total_raw_values(_, _)
total_raw_values(graded_lcia_results, d) ==
    IF graded_lcia_results = <<>> THEN 0
    ELSE (IF Supplies(Head(graded_lcia_results), d)
          THEN GradedOf(Head(graded_lcia_results), d).lcia_value
          ELSE 0) + total_raw_values(Tail(graded_lcia_results), d)

\* processors.calculate_recipe.  An empty list raises ZeroDivisionError in
\* get_combined_grade before a value is built.  Otherwise the categories, the
\* stages and the single score are combined, and GradedLCIAResult(...) is
\* called without proxy_flag.  The outcome keeps the GradedLCIAValues built
\* (graded_values) and the result returned, if any (value).
calculate_recipe(graded_lcia_results) ==
    LET stage_ids == UNION {DOMAIN graded_lcia_results[k].stage_values :
                               k \in 1..Len(graded_lcia_results)}
        category_ids == UNION {DOMAIN graded_lcia_results[k].impact_category_values :
                                  k \in 1..Len(graded_lcia_results)}
        dims == {<<"single", 0>>} \cup {<<"stage", t>> : t \in stage_ids}
                   \cup {<<"ic", c>> : c \in category_ids}
        combined == [d \in dims |->
                       get_combined_grade(total_scores(graded_lcia_results, d))]
        graded_values ==
            [d \in dims |->
               GradedLCIAValue(total_raw_values(graded_lcia_results, d),
                               combined[d], assign_grade(combined[d]))]
        built == GradedLCIAResult(
                    [single_score |-> graded_values[<<"single", 0>>],
                     stage_values |-> [t \in stage_ids |-> graded_values[<<"stage", t>>]],
                     impact_category_values |->
                         [c \in category_ids |-> graded_values[<<"ic", c>>]]])
    IN IF graded_lcia_results = <<>>
       THEN [error |-> "ZeroDivisionError", value |-> {}, graded_values |-> <<>>]
       ELSE IF \E d \in dims : ~check_scaled_range(combined[d])
       THEN [error |-> "ValidationError", value |-> {},
             graded_values |-> [d \in {e \in dims : check_scaled_range(combined[e])}
                                  |-> graded_values[d]]]
       ELSE [error |-> built.error, value |-> built.value,
             graded_values |-> graded_values]

\* The list handed to calculate_recipe as its caller finds it after the call:
\* the totals are collected in new lists and dicts, the results only read.
combined_arguments(graded_lcia_results) == graded_lcia_results

\* ------------------------------------------------------------ identifiers

\* What a constructor or a lookup ends in: the exception that reaches the
\* caller ("none" when it returned), the exception it was raised from, and
\* the value returned, if any.
Outcome(error, cause, value) == [error |-> error, cause |-> cause, value |-> value]

\* A field validator of an identifier: the value is kept when the check
\* passes, pydantic raises ValidationError when the validator raises.
Validated(ok, value) ==
    IF ok THEN Outcome("none", "none", {value})
    ELSE Outcome("ValidationError", "ValueError", {})

\* schemas.GeoID: check_range, 1 <= geo_id <= 249.
GeoID(value) == Validated(1 <= value /\ value <= 249, value)

\* schemas.ImpactCategoryID: check_range, 1 <= ic_id <= 17.
ImpactCategoryID(value) == Validated(1 <= value /\ value <= 17, value)

\* schemas.LCStageID: check_range, 1 <= lc_stage_id <= 6.
LCStageID(value) == Validated(1 <= value /\ value <= 6, value)

\* schemas.WeightingSchemeID: scheme_id: int, without a validator.
WeightingSchemeID(value) == Validated(TRUE, value)

\* ------------------------------------------------------------- input data

\* A value of the fields weighting_scheme_name and weighting_scheme_id, with
\* its Python type: None, a plain str or int, or a schema object.
NoneName == [type |-> "NoneType", value |-> ""]

NoneID == [type |-> "NoneType", value |-> 0]

PyStr(name) == [type |-> "str", value |-> name]

PyInt(id) == [type |-> "int", value |-> id]

\* Python truthiness: None is false, a str unless empty and an int unless 0
\* are true, a pydantic object is true.
Truthy(x) ==
    /\ x.type # "NoneType"
    /\ x.type = "str" => x.value # ""
    /\ x.type = "int" => x.value # 0

\* The names WeightingSchemeName accepts.
WeightingSchemeNames ==
    {"ef31_r0510", "ef31_r0110", "ef31_nr", "delphi_r0510", "delphi_r0110", "delphi_nr"}

\* schemas.WeightingSchemeName: a Literal of six names.
WeightingSchemeName(value) ==
    IF value \in WeightingSchemeNames
    THEN Outcome("none", "none", {[type |-> "WeightingSchemeName", value |-> value]})
    ELSE Outcome("ValidationError", "literal_error", {})

\* A validator that applies the default and accepts a request with both a
\* name and an id.
default_weighting_scheme(values) ==
    IF ~Truthy(values.weighting_scheme_name) /\ ~Truthy(values.weighting_scheme_id)
    THEN Outcome("none", "none",
                 {[values EXCEPT !.weighting_scheme_name =
                      [type |-> "WeightingSchemeName", value |-> "delphi_r0110"]]})
    ELSE Outcome("none", "none", {values})

\* InputData.validate_weighting_scheme (mode='before'): the default name when
\* neither is given, ValueError when both are.
validate_weighting_scheme(values) ==
    IF ~Truthy(values.weighting_scheme_name) /\ ~Truthy(values.weighting_scheme_id)
    THEN Outcome("none", "none",
                 {[values EXCEPT !.weighting_scheme_name =
                      [type |-> "WeightingSchemeName", value |-> "delphi_r0110"]]})
    ELSE IF Truthy(values.weighting_scheme_name) /\ Truthy(values.weighting_scheme_id)
    THEN Outcome("ValidationError", "ValueError", {})
    ELSE Outcome("none", "none", {values})

\* InputData(**kwargs): __init__ turns a str name into a WeightingSchemeName
\* and an int id into a WeightingSchemeID, then the model is validated.
InputData(kwargs) ==
    LET name == kwargs.weighting_scheme_name
        id == kwargs.weighting_scheme_id
        converted_name == IF name.type = "str" THEN WeightingSchemeName(name.value)
                          ELSE Outcome("none", "none", {name})
        converted_id == IF id.type = "int"
                        THEN Outcome(WeightingSchemeID(id.value).error, "none",
                                     {[type |-> "WeightingSchemeID", value |-> v] :
                                         v \in WeightingSchemeID(id.value).value})
                        ELSE Outcome("none", "none", {id})
    IN IF converted_name.error # "none" THEN converted_name
       ELSE IF converted_id.error # "none" THEN converted_id
       ELSE validate_weighting_scheme(
                [items |-> kwargs.items,
                 weighting_scheme_name |-> CHOOSE n \in converted_name.value : TRUE,
                 weighting_scheme_id |-> CHOOSE i \in converted_id.value : TRUE])

\* ---------------------------------------------------------------- lookups

\* Weights are counted in ten-thousandths.
WeightOne == 10000

\* The tolerance of the sum of a scheme's weights: 0.9999 .. 1.0001.
WeightTolerance == 1

RECURSIVE SumWeights(_)
SumWeights(weights) ==
    IF DOMAIN weights = {} THEN 0
    ELSE LET c == CHOOSE x \in DOMAIN weights : TRUE
         IN weights[c] + SumWeights([x \in DOMAIN weights \ {c} |-> weights[x]])

\* _Weight.check_value: 0 <= weight <= 1.
check_value(value) == 0 <= value /\ value <= WeightOne

\* A validation of the weights that only asks for a non-empty list.
validate_weights_nonempty(values) == DOMAIN values # {}

\* _Weights.validate_weights: the list is not empty and its sum lies in
\* [0.9999, 1.0001].
validate_weights(values) ==
    /\ DOMAIN values # {}
    /\ WeightOne - WeightTolerance <= SumWeights(values)
    /\ SumWeights(values) <= WeightOne + WeightTolerance

\* crud.get_ic_weights_by_scheme_id.  db.weights[scheme] holds the scheme's
\* rows of ImpactCategoryWeights as a dict from ic_id to ic_weight; the query
\* keeps the rows with ic_weight > 0.  Every exception raised in the try
\* block that is not an SQLAlchemyError leaves as UnknownError.
get_ic_weights_by_scheme_id(db, scheme) ==
    LET rows == IF scheme \in DOMAIN db.weights THEN db.weights[scheme] ELSE <<>>
        results == [c \in {c \in DOMAIN rows : rows[c] > 0} |-> rows[c]]
    IN IF DOMAIN results = {}
       THEN Outcome("UnknownError", "NameNotFoundError", {})
       ELSE IF \E c \in DOMAIN results :
                  ImpactCategoryID(c).error # "none" \/ ~check_value(results[c])
       THEN Outcome("UnknownError", "ValueError", {})
       ELSE IF ~validate_weights(results)
       THEN Outcome("UnknownError", "ValueError", {})
       ELSE Outcome("none", "none", {results})

\* crud.get_scheme_id_by_weight_string.  db.schemes holds the rows of
\* WeightingSchemes as a dict from scheme_id (the primary key) to name;
\* one_or_none() raises MultipleResultsFound, an SQLAlchemyError, for a name
\* several rows have.
get_scheme_id_by_weight_string(db, weights_string) ==
    LET rows == {id \in DOMAIN db.schemes : db.schemes[id] = weights_string}
    IN IF Cardinality(rows) > 1
       THEN Outcome("SQLAlchemyError", "MultipleResultsFound", {})
       ELSE IF rows = {}
       THEN Outcome("UnknownError", "NameNotFoundError", {})
       ELSE WeightingSchemeID(CHOOSE id \in rows : TRUE)

\* crud.get_name_by_id for a WeightingSchemeID (fetch_from_weighting_schemes):
\* the name of the row, a plain str; its NameNotFoundError is re-raised as it
\* is.
get_name_by_id(db, id_schema) ==
    IF id_schema \notin DOMAIN db.schemes
    THEN Outcome("NameNotFoundError", "none", {})
    ELSE Outcome("none", "none", {db.schemes[id_schema]})

\* crud.get_proxy_flag.  db.proxy holds MetaData.proxy_flag by item_id, the
\* item's geo_id is GeoOf[item_id].
get_proxy_flag(db, item_id, geo_id) ==
    IF item_id \notin DOMAIN db.proxy \/ GeoOf[item_id] # geo_id
    THEN Outcome("UnknownError", "NameNotFoundError", {})
    ELSE Outcome("none", "none", {db.proxy[item_id]})

\* ------------------------------------------------------------- the response

\* OutputData.model_dump, "Item Results": proxy_flags is the dict of the
\* flags in insertion order, as a list of (unique_id, flag) with distinct
\* keys; zip pairs its i-th key with the i-th graded result and stops at the
\* shorter of the two; the names dictionaries map ids to names one to one,
\* so stages and categories stay keyed by id here.
model_dump(proxy_flags, graded_lcia_results) ==
    LET zipped == 1..(IF Len(proxy_flags) <= Len(graded_lcia_results)
                      THEN Len(proxy_flags) ELSE Len(graded_lcia_results))
        flag_of == [unique_id \in {proxy_flags[k][1] : k \in 1..Len(proxy_flags)} |->
                      LET k == CHOOSE n \in 1..Len(proxy_flags) :
                                   proxy_flags[n][1] = unique_id
                      IN proxy_flags[k][2]]
    IN [unique_id \in {proxy_flags[k][1] : k \in zipped} |->
          LET k == CHOOSE n \in zipped :
                       /\ proxy_flags[n][1] = unique_id
                       /\ \A m \in zipped : proxy_flags[m][1] = unique_id => m <= n
              item_result == graded_lcia_results[k]
          IN [single_score |-> item_result.single_score,
              contains_proxy |-> flag_of[unique_id],
              stage_values |-> item_result.stage_values,
              impact_category_values |-> item_result.impact_category_values]]

\* The response of a request, or the exception that ends it.
Response(error, item_results) == [error |-> error, item_results |-> item_results]

\* The end of recipe_optimized.calculate_recipe_optimized, from the outcomes
\* of the bulk fetch, of the bounds and of the grading of every item: the
\* recipe, the proxy flags by position and OutputData.  A typed error of the
\* API is raised again, anything else ends as UnknownError.
output_data(items, item_results, min_max_values, graded_outcomes) ==
    LET grading_error ==
            IF graded_outcomes = <<>> THEN "none"
            ELSE graded_outcomes[Len(graded_outcomes)].error
        graded_item_results ==
            [k \in 1..Len(graded_outcomes) |-> CHOOSE g \in graded_outcomes[k].value : TRUE]
        proxy_flags == [k \in 1..Len(items) |-> <<items[k], item_results.value[k].proxy_flag>>]
        typed == {"MissingLCIAValueError", "MultipleMissingLCIAValueErrors",
                  "NameNotFoundError", "ValueError", "UnknownError"}
        raised(error) == IF error \in typed THEN error ELSE "UnknownError"
    IN IF item_results.error # "none" THEN Response(raised(item_results.error), <<>>)
       ELSE IF min_max_values.error # "none"
       THEN Response(raised(min_max_values.error), <<>>)
       ELSE IF grading_error # "none" THEN Response(raised(grading_error), <<>>)
       ELSE IF calculate_recipe(graded_item_results).error # "none"
       THEN Response(raised(calculate_recipe(graded_item_results).error), <<>>)
       ELSE Response("none", model_dump(proxy_flags, graded_item_results))

\* ------------------------------------------------------------------ state

VARIABLES
    pc,                     \* the step the run is at
    impact_categories,      \* the selected categories (a list)
    lc_stages,              \* the selected stages (a list)
    expected_combinations,  \* generate_expected_combinations' result
    lcia_result,            \* the LCIAResult handed to apply_grading_scheme
    min_max_values,         \* the MinMaxValues handed to apply_grading_scheme
    scaled_value,           \* a scaled value handed to GradedLCIAValue
    graded,                 \* the outcome of apply_grading_scheme
    db,                     \* the tables of the weighting scheme
    other_db,               \* the same tables with other rows for the proxy items
    items,                  \* the items of the request (a list)
    results,                \* the outcome of building the item results
    bounds,                 \* the outcome of computing MinMaxValues from db
    other_bounds,           \* the outcome of computing them from other_db
    graded_lcia_results,    \* the graded item results handed to calculate_recipe
    recipe,                 \* the outcome of calculate_recipe
    data,                   \* the InputData of the request
    call,                   \* a function call: its name and arguments
    outcome                 \* what the call returned or raised

vars == <<pc, impact_categories, lc_stages, expected_combinations,
          lcia_result, min_max_values, scaled_value, graded,
          db, other_db, items, results, bounds, other_bounds,
          graded_lcia_results, recipe, data, call, outcome>>

selVars == <<impact_categories, lc_stages, expected_combinations>>

gradeVars == <<lcia_result, min_max_values, scaled_value, graded>>

runVars == <<db, other_db, items, results, bounds, other_bounds>>

recipeVars == <<graded_lcia_results, recipe>>

requestVars == <<data, call, outcome>>

Unused == "unused"

SelIdle ==
    /\ impact_categories = Unused /\ lc_stages = Unused /\ expected_combinations = Unused

GradeIdle ==
    /\ lcia_result = Unused /\ min_max_values = Unused
    /\ scaled_value = Unused /\ graded = Unused

RunIdle ==
    /\ db = Unused /\ other_db = Unused /\ items = Unused
    /\ results = Unused /\ bounds = Unused /\ other_bounds = Unused

RecipeIdle ==
    /\ graded_lcia_results = Unused /\ recipe = Unused

RequestIdle ==
    /\ data = Unused /\ call = Unused /\ outcome = Unused

\* ------------------------------------------------- the combination selector

InitSel ==
    /\ pc = "select"
    /\ impact_categories \in DistinctSeqs(ImpactCategoryIDs)
    /\ lc_stages \in {SortedSeq(S) : S \in SUBSET PipelineStages}
    /\ expected_combinations = {}
    /\ GradeIdle /\ RunIdle /\ RecipeIdle /\ RequestIdle

GenerateExpectedCombinations ==
    /\ pc = "select"
    /\ expected_combinations' = generate_expected_combinations(impact_categories, lc_stages)
    /\ pc' = "selected"
    /\ UNCHANGED <<impact_categories, lc_stages, gradeVars, runVars, recipeVars, requestVars>>

\* The same selection handed to bulk_fetch_weighted_results.
BulkExpectedCombinations ==
    /\ pc = "select"
    /\ expected_combinations' = bulk_expected_combinations(impact_categories, lc_stages)
    /\ pc' = "selected"
    /\ UNCHANGED <<impact_categories, lc_stages, gradeVars, runVars, recipeVars, requestVars>>

NextSel == GenerateExpectedCombinations \/ BulkExpectedCombinations

SpecSel == InitSel /\ [][NextSel]_vars

\* C4: the required set is exactly (17, stage 1) for a selected category 17
\* and one pair per selected stage for every other selected category, so it
\* has |categories without 17| * |stages| pairs, plus one if 17 is selected.
ExpectedCombinationsExact ==
    pc = "selected" =>
        LET cats == Range(impact_categories)
            stages == Range(lc_stages)
        IN /\ \A c \in 1..17, s \in 1..6 :
                <<c, s>> \in expected_combinations <=>
                    /\ c \in cats
                    /\ \/ c = 17 /\ s = 1
                       \/ c # 17 /\ s \in stages
           /\ \A p \in expected_combinations : p[1] \in 1..17 /\ p[2] \in 1..6
           /\ Cardinality(expected_combinations) =
                 Cardinality(cats \ {17}) * Cardinality(stages)
                 + (IF 17 \in cats THEN 1 ELSE 0)

\* Category 17 selected together with several stages, none of them stage 1.
ExpectedCombinationsWitness ==
    /\ pc = "selected"
    /\ 17 \in Range(impact_categories)
    /\ 1 \notin Range(lc_stages)
    /\ Len(lc_stages) >= 2
    /\ Len(impact_categories) >= 2
    /\ <<17, 1>> \in expected_combinations

\* ------------------------------------------------------- the grading engine

\* The category selections of a scheme: the non-empty sets of categories.
Selections == {SortedSeq(S) : S \in (SUBSET ModelCategories) \ {{}}}

\* The pairs a bulk fetch can return for one item once its completeness check
\* passed: every required pair, and any stored pair of a selected category
\* and a selected stage (the query filters by category and by stage).
FetchablePairs(categories, stages) ==
    {<<c, s>> : c \in Range(categories), s \in Range(stages)}
        \cup generate_expected_combinations(categories, stages)

CompleteFetches(categories, stages) ==
    UNION {[D -> 0..MaxValue] :
             D \in {D \in SUBSET FetchablePairs(categories, stages) :
                      generate_expected_combinations(categories, stages) \subseteq D}}

\* The LCIAResults process_single_item_results builds from complete fetches.
LCIAResults ==
    UNION {UNION {process_single_item_results(
                      item, GeoOf[item], item = "i2", weighted, single,
                      categories, ModelStages).value
                  : weighted \in CompleteFetches(categories, ModelStages),
                    item \in ItemIDs, single \in 0..MaxValue}
           : categories \in Selections}

\* The valid MinMaxValues that bound the stages and categories of an LCIAResult.
MinMaxFor(result) ==
    UNION {MinMaxValues(
               [scheme_id |-> 1,
                single_score_min |-> single[1], single_score_max |-> single[2],
                ic_mins |-> [c \in DOMAIN ic |-> ic[c][1]],
                ic_maxs |-> [c \in DOMAIN ic |-> ic[c][2]],
                lc_mins |-> [t \in DOMAIN lc |-> lc[t][1]],
                lc_maxs |-> [t \in DOMAIN lc |-> lc[t][2]]]).value
           : single \in BoundPairs,
             ic \in [DOMAIN result.impact_category_values -> BoundPairs],
             lc \in [DOMAIN result.stage_values -> BoundPairs]}

InitGrade ==
    /\ SelIdle /\ RunIdle /\ RecipeIdle /\ RequestIdle
    /\ graded = Unused
    /\ \/ /\ pc = "grade"
          /\ lcia_result \in LCIAResults
          /\ min_max_values \in MinMaxFor(lcia_result)
          /\ scaled_value = Unused
       \/ /\ pc = "probe"
          /\ lcia_result \in 0..MaxValue
          /\ min_max_values = Unused
          /\ scaled_value \in ProbeScaled

ApplyGradingScheme ==
    /\ pc = "grade"
    /\ graded' = apply_grading_scheme(lcia_result, min_max_values)
    /\ pc' = "graded"
    /\ UNCHANGED <<selVars, lcia_result, min_max_values, scaled_value, runVars, recipeVars, requestVars>>

\* GradedLCIAValue(lcia_value=x, scaled_value=v, grade=assign_grade(v)) as
\* apply_grading_scheme and calculate_recipe build every graded value.
BuildGradedValue ==
    /\ pc = "probe"
    /\ graded' =
          IF check_scaled_range(scaled_value)
          THEN [error |-> "none", value |-> {},
                scaled_values |-> [d \in {<<"single", 0>>} |-> scaled_value],
                graded_values |-> [d \in {<<"single", 0>>} |->
                    GradedLCIAValue(lcia_result, scaled_value, assign_grade(scaled_value))]]
          ELSE [error |-> "ValidationError", value |-> {},
                scaled_values |-> [d \in {<<"single", 0>>} |-> scaled_value],
                graded_values |-> <<>>]
    /\ pc' = "probed"
    /\ UNCHANGED <<selVars, lcia_result, min_max_values, scaled_value, runVars, recipeVars, requestVars>>

NextGrade == ApplyGradingScheme \/ BuildGradedValue

SpecGrade == InitGrade /\ [][NextGrade]_vars

\* Every stage and category of the LCIAResult sums at least one value.
AllNormalized ==
    /\ \A t \in DOMAIN lcia_result.ic_normalization : lcia_result.ic_normalization[t] >= 1
    /\ \A c \in DOMAIN lcia_result.lc_normalization : lcia_result.lc_normalization[c] >= 1

\* C1: for a valid LCIAResult (non-negative values, every count at least 1)
\* and valid MinMaxValues (min < max everywhere), apply_grading_scheme
\* produces a scaled value in [0,1] for the single score, every stage and
\* every category, also when a raw value lies outside [min, max].
GradingScaledInRange ==
    (pc = "graded" /\ AllNormalized) =>
        \A i \in 1..Len(GradingOrder(lcia_result)) :
            LET d == GradingOrder(lcia_result)[i]
            IN /\ d \in DOMAIN graded.graded_values
               /\ check_scaled_range(graded.graded_values[d].scaled_value)

\* C2: a raw value above the dimension's max is scaled as max would be, one
\* below its min as min would be.
ProxyTruncation ==
    pc = "graded" =>
        \A d \in DOMAIN graded.scaled_values :
            LET lo == MinOf(min_max_values, d)
                hi == MaxOf(min_max_values, d)
                n == NormalizationOf(lcia_result, d)
            IN /\ RawOf(lcia_result, d) > hi =>
                    graded.scaled_values[d] = log_scale(hi, lo, hi, n)
               /\ RawOf(lcia_result, d) < lo =>
                    graded.scaled_values[d] = log_scale(lo, lo, hi, n)

\* Every raw value of the LCIAResult lies within the bounds of its dimension.
WithinBounds ==
    \A i \in 1..Len(GradingOrder(lcia_result)) :
        LET d == GradingOrder(lcia_result)[i]
        IN /\ MinOf(min_max_values, d) <= RawOf(lcia_result, d)
           /\ RawOf(lcia_result, d) <= MaxOf(min_max_values, d)

\* C23: for an LCIAResult whose values lie within the bounds,
\* apply_grading_scheme returns a GradedLCIAResult with the item_id, geo_id
\* and proxy_flag of the LCIAResult, the same stage keys and category keys,
\* and the ungraded value as raw lcia_value of the single score, every stage
\* and every category.
GradedResultKeepsFrame ==
    (pc = "graded" /\ AllNormalized /\ WithinBounds) =>
        /\ graded.error = "none"
        /\ \A g \in graded.value :
              /\ g.item_id = lcia_result.item_id
              /\ g.geo_id = lcia_result.geo_id
              /\ g.proxy_flag = lcia_result.proxy_flag
              /\ DOMAIN g.stage_values = DOMAIN lcia_result.stage_values
              /\ DOMAIN g.impact_category_values = DOMAIN lcia_result.impact_category_values
              /\ g.single_score.lcia_value = lcia_result.single_score
              /\ \A t \in DOMAIN g.stage_values :
                    g.stage_values[t].lcia_value = lcia_result.stage_values[t]
              /\ \A c \in DOMAIN g.impact_category_values :
                    g.impact_category_values[c].lcia_value =
                        lcia_result.impact_category_values[c]

\* ------------------------------------------------------- the item results

\* The (category, stage) cells a stored row can have, the proxy flags of the
\* items, the data sources and the requests of the item-results runs.
AggCells == {<<c, t>> : c \in ModelCategories, t \in Range(ModelStages)}

ProxyOf == [i \in ItemIDs |-> i = "i2"]

AggDBs ==
    {[weighted |-> w, single |-> sg, proxy |-> ProxyOf] :
        w \in [ItemIDs -> PartialFns(AggCells, 1..MaxValue)],
        sg \in PartialFns(ItemIDs, 1..MaxValue)}

Requests == {<<>>, <<"i1">>, <<"i1", "i2">>}

InitAgg ==
    /\ pc = "fetch"
    /\ impact_categories \in Selections
    /\ lc_stages = ModelStages
    /\ db \in AggDBs
    /\ items \in Requests
    /\ expected_combinations = Unused
    /\ other_db = Unused /\ results = Unused /\ bounds = Unused /\ other_bounds = Unused
    /\ GradeIdle /\ RecipeIdle /\ RequestIdle

\* The item loop of main.calculate_recipe.
GetResults ==
    /\ pc = "fetch"
    /\ results' = get_results_each(db, items, impact_categories, lc_stages,
                                   ResultsOutcome("none", "none", <<>>, {}, <<>>, <<>>))
    /\ pc' = "fetched"
    /\ UNCHANGED <<selVars, gradeVars, db, other_db, items, bounds, other_bounds, recipeVars, requestVars>>

\* The bulk fetch of recipe_optimized.calculate_recipe_optimized.
GetResultsBulk ==
    /\ pc = "fetch"
    /\ results' = get_results_bulk(db, items, impact_categories, lc_stages)
    /\ pc' = "fetched"
    /\ UNCHANGED <<selVars, gradeVars, db, other_db, items, bounds, other_bounds, recipeVars, requestVars>>

NextAgg == GetResults \/ GetResultsBulk

SpecAgg == InitAgg /\ [][NextAgg]_vars

\* C5: for every item whose values were fetched and summed, each selected
\* stage holds the sum and the number of the fetched pairs of that stage, each
\* selected category the sum and the number of the fetched pairs of that
\* category (0 and 0 without a pair), and an LCIAResult returned for the item
\* holds exactly these sums and counts.
ItemAggregationSums ==
    pc = "fetched" =>
        /\ \A i \in DOMAIN results.aggregated :
              LET fetched == results.fetched[i]
                  acc == results.aggregated[i]
              IN /\ DOMAIN acc.stage_values = Range(lc_stages)
                 /\ DOMAIN acc.ic_normalization = Range(lc_stages)
                 /\ DOMAIN acc.impact_category_values = Range(impact_categories)
                 /\ DOMAIN acc.lc_normalization = Range(impact_categories)
                 /\ \A t \in Range(lc_stages) :
                       LET of_stage == {p \in DOMAIN fetched : p[2] = t}
                       IN /\ acc.stage_values[t] = SumOver(of_stage, fetched)
                          /\ acc.ic_normalization[t] = Cardinality(of_stage)
                 /\ \A c \in Range(impact_categories) :
                       LET of_category == {p \in DOMAIN fetched : p[1] = c}
                       IN /\ acc.impact_category_values[c] = SumOver(of_category, fetched)
                          /\ acc.lc_normalization[c] = Cardinality(of_category)
        /\ \A k \in 1..Len(results.value) :
              LET r == results.value[k]
                  acc == results.aggregated[r.item_id]
              IN /\ r.stage_values = acc.stage_values
                 /\ r.ic_normalization = acc.ic_normalization
                 /\ r.impact_category_values = acc.impact_category_values
                 /\ r.lc_normalization = acc.lc_normalization

\* An LCIAResult whose stage 2 sums the pairs (1,2) and (17,2) and whose
\* category 17 sums two stages.
ItemAggregationWitness ==
    /\ pc = "fetched"
    /\ Len(results.value) = 2
    /\ results.value[1].ic_normalization[2] = 2
    /\ results.value[1].stage_values[2] = 2
    /\ results.value[1].lc_normalization[17] = 2
    /\ 2 \notin DOMAIN results.value[2].ic_normalization
          \/ results.value[2].ic_normalization[2] = 1

\* C26: in the aggregation of any item, category 17 contributes only its
\* stage-1 value: it counts at most one pair, its value is the stored
\* (17, 1) value, the sums and counts of the other stages hold no value of
\* category 17, and only required pairs are summed, also when the data
\* source stores rows of category 17 for other stages.
BiodiversityOnlyAtAgriculture ==
    pc = "fetched" =>
        \A i \in DOMAIN results.aggregated :
            LET acc == results.aggregated[i]
                stored == db.weighted[i]
                required == generate_expected_combinations(impact_categories, lc_stages)
            IN /\ DOMAIN results.fetched[i] \subseteq required
               /\ BiodiversityIC \in DOMAIN acc.lc_normalization =>
                     /\ acc.lc_normalization[BiodiversityIC] <= 1
                     /\ <<BiodiversityIC, AgricultureStage>> \in DOMAIN stored =>
                           acc.impact_category_values[BiodiversityIC] =
                               stored[<<BiodiversityIC, AgricultureStage>>]
               /\ \A t \in DOMAIN acc.stage_values \ {AgricultureStage} :
                     LET others == {p \in DOMAIN stored :
                                       /\ p[2] = t /\ p[1] # BiodiversityIC
                                       /\ p[1] \in Range(impact_categories)}
                     IN /\ acc.stage_values[t] = SumOver(others, stored)
                        /\ acc.ic_normalization[t] = Cardinality(others)

\* C27: in every LCIAResult returned for grading, each stage counts at least
\* one summed pair and each category counts at least one, whatever non-empty
\* selection of categories was requested, so that log_scale never divides by
\* the square root of 0.
NormalizationCountsPositive ==
    pc = "fetched" =>
        \A k \in 1..Len(results.value) :
            LET r == results.value[k]
            IN /\ \A t \in DOMAIN r.stage_values : r.ic_normalization[t] >= 1
               /\ \A c \in DOMAIN r.impact_category_values : r.lc_normalization[c] >= 1
               /\ \A t \in DOMAIN r.stage_values :
                     SqrtMilli(r.ic_normalization[t]) # 0
               /\ \A c \in DOMAIN r.impact_category_values :
                     SqrtMilli(r.lc_normalization[c]) # 0

\* C28: when the stage of every fetched pair is selected and its category is
\* selected, the stage values of an item add up to the sum of all fetched
\* values and so do its category values, and the stage counts add up to the
\* number of fetched pairs and so do the category counts.
AggregationConserves ==
    pc = "fetched" =>
        \A i \in DOMAIN results.aggregated :
            LET fetched == results.fetched[i]
                acc == results.aggregated[i]
            IN (\A p \in DOMAIN fetched :
                    p[1] \in Range(impact_categories) /\ p[2] \in Range(lc_stages)) =>
                  /\ SumOver(DOMAIN acc.stage_values, acc.stage_values)
                        = SumOver(DOMAIN fetched, fetched)
                  /\ SumOver(DOMAIN acc.impact_category_values, acc.impact_category_values)
                        = SumOver(DOMAIN fetched, fetched)
                  /\ SumOver(DOMAIN acc.ic_normalization, acc.ic_normalization)
                        = Cardinality(DOMAIN fetched)
                  /\ SumOver(DOMAIN acc.lc_normalization, acc.lc_normalization)
                        = Cardinality(DOMAIN fetched)

\* An LCIAResult of two stages and two categories that sums three fetched
\* pairs of value 1: the stages hold 2 and 1, the categories 2 and 1.
AggregationConservesWitness ==
    /\ pc = "fetched"
    /\ Len(results.value) >= 1
    /\ Cardinality(DOMAIN results.fetched[results.value[1].item_id]) = 3
    /\ results.value[1].stage_values = <<2, 1>>
    /\ results.value[1].ic_normalization = <<2, 1>>
    /\ Cardinality(DOMAIN results.value[1].impact_category_values) = 2
    /\ results.value[1].impact_category_values[1] = 2
    /\ results.value[1].lc_normalization[1] = 2
    /\ results.value[1].impact_category_values[BiodiversityIC] = 1

\* The required pairs of a selection no stored row of the item supplies.
MissingPairs(i) ==
    {p \in {<<c, t>> : c \in Range(impact_categories), t \in Range(lc_stages) \cup {1}} :
        /\ \/ p[1] = 17 /\ p[2] = 1
           \/ p[1] # 17 /\ p[2] \in Range(lc_stages)
        /\ p \notin DOMAIN db.weighted[i]}

\* C6: when a requested item lacks a stored value for a required pair, the
\* request fails with a missing-value error and returns no LCIAResult for it.
MissingPairIsMissingValueError ==
    (pc = "fetched" /\ \E k \in 1..Len(items) : MissingPairs(items[k]) # {}) =>
        /\ results.error \in {"MissingLCIAValueError", "MultipleMissingLCIAValueErrors"}
        /\ \A k \in 1..Len(results.value) : MissingPairs(results.value[k].item_id) = {}

\* Every missing value of the request: the missing required pairs and the
\* missing single scores of its items, as (item, category, stage) with (0, 0)
\* for a single score.
AllMissingValues ==
    UNION {{<<items[k], p[1], p[2]>> : p \in MissingPairs(items[k])}
              \cup (IF items[k] \in DOMAIN db.single THEN {} ELSE {<<items[k], 0, 0>>})
           : k \in 1..Len(items)}

\* C7: when values are missing, the failure reported lists every one of them.
AllMissingValuesReported ==
    (pc = "fetched" /\ AllMissingValues # {}) =>
        /\ results.error \in {"MissingLCIAValueError", "MultipleMissingLCIAValueErrors"}
        /\ {<<m[2], m[3], m[4]>> : m \in results.missing} = AllMissingValues

\* ------------------------------------------------------ the scaling bounds

\* The data sources of the bounds runs: rows of stage 1 for the categories 1
\* and 17, item i1 never a proxy, item i2 a proxy or not.  The values go one
\* beyond MaxValue, so that a proxy row can lie above non-proxy rows that
\* already differ.
BoundsCells == {<<c, 1>> : c \in ModelCategories}

BoundsStages == <<1>>

BoundsValues == 0..(MaxValue + 1)

BoundsDBs ==
    {[weighted |-> w, single |-> sg, proxy |-> [i \in ItemIDs |-> i = "i2" /\ flag]] :
        w \in [ItemIDs -> PartialFns(BoundsCells, BoundsValues)],
        sg \in PartialFns(ItemIDs, BoundsValues),
        flag \in BOOLEAN}

\* d with the row p of item i deleted, or written with value v.
WithoutWeighted(d, i, p) ==
    [d EXCEPT !.weighted[i] = [q \in DOMAIN d.weighted[i] \ {p} |-> d.weighted[i][q]]]

WithWeighted(d, i, p, v) ==
    [d EXCEPT !.weighted[i] = [q \in DOMAIN d.weighted[i] \cup {p} |->
                                  IF q = p THEN v ELSE d.weighted[i][q]]]

WithoutSingle(d, i) ==
    [d EXCEPT !.single = [k \in DOMAIN d.single \ {i} |-> d.single[k]]]

WithSingle(d, i, v) ==
    [d EXCEPT !.single = [k \in DOMAIN d.single \cup {i} |->
                             IF k = i THEN v ELSE d.single[k]]]

\* d itself and the data sources that differ from d in one row of a proxy
\* item: a row of WeightedResults or of SingleScores deleted, inserted or
\* updated.
ProxyVariants(d) ==
    {d} \cup UNION {
        {WithoutWeighted(d, i, p) : p \in BoundsCells}
          \cup {WithWeighted(d, i, p, v) : p \in BoundsCells, v \in BoundsValues}
          \cup {WithoutSingle(d, i)}
          \cup {WithSingle(d, i, v) : v \in BoundsValues}
        : i \in {k \in ItemIDs : d.proxy[k]}}

\* Before a step of the run has produced its outcome.
NoResults == ResultsOutcome("pending", "none", <<>>, {}, <<>>, <<>>)

NoBounds == BoundsOutcome("pending", "none", {})

InitBounds ==
    /\ pc = "start"
    /\ impact_categories = SortedSeq(ModelCategories)
    /\ lc_stages = BoundsStages
    /\ db \in BoundsDBs
    /\ other_db \in ProxyVariants(db)
    /\ items \in Requests
    /\ expected_combinations = Unused
    /\ results = NoResults /\ bounds = NoBounds /\ other_bounds = NoBounds
    /\ graded = <<>>
    /\ lcia_result = Unused /\ min_max_values = Unused /\ scaled_value = Unused
    /\ RecipeIdle /\ RequestIdle

\* A call of crud.get_min_max_values, on either data source.
GetMinMaxValues ==
    /\ pc = "start"
    /\ bounds' = get_min_max_values(db, impact_categories, lc_stages)
    /\ other_bounds' = get_min_max_values(other_db, impact_categories, lc_stages)
    /\ pc' = "bounded"
    /\ UNCHANGED <<selVars, gradeVars, db, other_db, items, results, recipeVars, requestVars>>

\* calculate_recipe_optimized, step 1: the item results.
FetchItemResults ==
    /\ pc = "start"
    /\ results' = get_results_bulk(db, items, impact_categories, lc_stages)
    /\ pc' = IF results'.error = "none" THEN "results" ELSE "aborted"
    /\ UNCHANGED <<selVars, gradeVars, db, other_db, items, bounds, other_bounds, recipeVars, requestVars>>

\* Step 2: get_min_max_values_optimized, on either data source.
GetMinMaxValuesOptimized ==
    /\ pc = "results"
    /\ bounds' = bulk_fetch_min_max_values(db, impact_categories, lc_stages)
    /\ other_bounds' = bulk_fetch_min_max_values(other_db, impact_categories, lc_stages)
    /\ pc' = IF bounds'.error = "none" THEN "grade" ELSE "aborted"
    /\ UNCHANGED <<selVars, gradeVars, db, other_db, items, results, recipeVars, requestVars>>

\* Step 3: the item results are graded with the bounds of step 2.
GradeItems ==
    /\ pc = "grade"
    /\ graded' = grade_each(results.value, CHOOSE m \in bounds.value : TRUE)
    /\ pc' = "graded"
    /\ UNCHANGED <<selVars, lcia_result, min_max_values, scaled_value, runVars, recipeVars, requestVars>>

NextBounds ==
    GetMinMaxValues \/ FetchItemResults \/ GetMinMaxValuesOptimized \/ GradeItems

SpecBounds == InitBounds /\ [][NextBounds]_vars

\* C8: the bounds computed from two data sources that differ only in rows of
\* proxy items are the same.
BoundsIgnoreProxyRows ==
    bounds.error # "pending" => bounds = other_bounds

\* The items whose rows the computation that produced `bounds` reads: every
\* item for crud.get_min_max_values, the non-proxy items for the bulk variant.
BoundsItems == IF pc = "bounded" THEN ItemIDs ELSE {i \in ItemIDs : ~db.proxy[i]}

\* The stored values of one dimension are all equal: its min is its max.
Degenerate(S) == Cardinality(S) = 1

StoredMinNotBelowMax ==
    \/ Degenerate(single_scores(db, BoundsItems))
    \/ \E c \in Range(impact_categories) :
          Degenerate(weighted_values(db, BoundsItems, 1, c))
    \/ \E t \in Range(lc_stages) :
          Degenerate(weighted_values(db, BoundsItems, 2, t))

\* C9: every MinMaxValues produced, and so every one used by grading, has
\* min < max for the single score and for every category and stage it bounds;
\* when the stored values of a dimension give min >= max no MinMaxValues is
\* produced, the constructor (once reached) raises MinMaxValidationError, and
\* nothing is graded.
BoundsOrdered ==
    bounds.error # "pending" =>
        /\ \A m \in bounds.value :
              /\ m.single_score_min < m.single_score_max
              /\ DOMAIN m.ic_mins = DOMAIN m.ic_maxs
              /\ \A c \in DOMAIN m.ic_mins : m.ic_mins[c] < m.ic_maxs[c]
              /\ DOMAIN m.lc_mins = DOMAIN m.lc_maxs
              /\ \A t \in DOMAIN m.lc_mins : m.lc_mins[t] < m.lc_maxs[t]
        /\ pc = "graded" => bounds.error = "none" /\ bounds.value # {}
        /\ StoredMinNotBelowMax =>
              /\ bounds.value = {}
              /\ bounds.error # "none"
              /\ bounds.cause \in {"MinMaxValidationError", "MinMaxValueNotFoundError"}
              /\ pc # "bounded" => bounds.cause = "MinMaxValidationError"
              /\ pc \in {"bounded", "aborted"}
              /\ graded = <<>>

\* The optimized run aborted by MinMaxValidationError with item results at
\* hand and none of them graded: the non-proxy category 1 has min = max.
BoundsAbortWitness ==
    /\ pc = "aborted"
    /\ results.error = "none" /\ Len(results.value) = 2
    /\ bounds.cause = "MinMaxValidationError"
    /\ Degenerate(weighted_values(db, BoundsItems, 1, 1))
    /\ ~Degenerate(single_scores(db, BoundsItems))
    /\ graded = <<>>

\* --------------------------------------------------------------- the recipe

\* At most MaxItems graded item results are combined.
MaxItems == 2

RecipeStages == {1}

RecipeCategories == {1}

\* The graded value of raw value v in the recipe runs; its scaled value is
\* spread over [0,1].
SampleGraded(v) ==
    GradedLCIAValue(v, (v * 600) % (One + 1), assign_grade((v * 600) % (One + 1)))

\* The graded values of the item results: scaled 0, 0.6 and 1.
SampleValues ==
    {SampleGraded(v) : v \in 0..1} \cup {GradedLCIAValue(1, One, assign_grade(One))}

\* What an item result holds for the single score, the stages and the
\* categories.
GradedShapes ==
    {[single_score |-> single, stage_values |-> st, impact_category_values |-> ic] :
        single \in SampleValues,
        st \in PartialFns(RecipeStages, SampleValues),
        ic \in PartialFns(RecipeCategories, SampleValues)}

\* The graded result of the k-th item of a request.
GradedItemResult(k, shape) ==
    [item_id |-> IF k % 2 = 1 THEN "i1" ELSE "i2",
     geo_id |-> IF k % 2 = 1 THEN 1 ELSE 2,
     proxy_flag |-> k % 2 = 0,
     single_score |-> shape.single_score,
     stage_values |-> shape.stage_values,
     impact_category_values |-> shape.impact_category_values]

InitRecipe ==
    /\ pc = "combine"
    /\ \E n \in 0..MaxItems :
          \E shapes \in [1..n -> GradedShapes] :
              graded_lcia_results = [k \in 1..n |-> GradedItemResult(k, shapes[k])]
    /\ recipe = Unused
    /\ SelIdle /\ GradeIdle /\ RunIdle /\ RequestIdle

CalculateRecipe ==
    /\ pc = "combine"
    /\ recipe' = calculate_recipe(graded_lcia_results)
    /\ pc' = "combined"
    /\ UNCHANGED <<selVars, gradeVars, runVars, graded_lcia_results, requestVars>>

NextRecipe == CalculateRecipe

SpecRecipe == InitRecipe /\ [][NextRecipe]_vars

\* The dimensions at least one item result has.
RecipeDims ==
    {<<"single", 0>>}
      \cup {<<"stage", t>> : t \in UNION {DOMAIN graded_lcia_results[k].stage_values :
                                             k \in 1..Len(graded_lcia_results)}}
      \cup {<<"ic", c>> : c \in UNION {DOMAIN graded_lcia_results[k].impact_category_values :
                                          k \in 1..Len(graded_lcia_results)}}

RecipeReturnedForAnyLength ==
    pc = "combined" =>
        /\ recipe.error # "ZeroDivisionError"
        /\ recipe.error = "none"
        /\ recipe.value # {}

\* The scaled values the items supply for dimension d, as a set of list
\* positions and the list of their values.
Suppliers(d) ==
    {k \in 1..Len(graded_lcia_results) : Supplies(graded_lcia_results[k], d)}

SuppliedSquares(d) ==
    LET sq == [k \in Suppliers(d) |->
                 GradedOf(graded_lcia_results[k], d).scaled_value
                   * GradedOf(graded_lcia_results[k], d).scaled_value]
    IN SumOver(Suppliers(d), sq)

\* C11: for every dimension some item supplies, the recipe's scaled value s is
\* sqrt(sum of the suppliers' squared scaled values / n) with n the number of
\* suppliers of that dimension, not the number of items: s^2 * n is the sum of
\* squares up to the rounding of the two square roots and of the quotient
\* (s is within two thousandths of the exact root); a dimension no item
\* supplies is absent from the recipe.
RecipeScaledIsRenormalized ==
    (pc = "combined" /\ Len(graded_lcia_results) >= 1) =>
        /\ DOMAIN recipe.graded_values = RecipeDims
        /\ \A d \in RecipeDims :
              LET s == recipe.graded_values[d].scaled_value
                  n == Cardinality(Suppliers(d))
                  lo == IF s <= 2 THEN 0 ELSE s - 2
              IN /\ n >= 1
                 /\ lo * lo * n <= SuppliedSquares(d)
                 /\ SuppliedSquares(d) <= (s + 2) * (s + 2) * n

\* Two items, a stage only the first supplies with scaled 0.6: the recipe's
\* stage value is 0.6 (n = 1), where n = 2 would give 0.424.
RecipeScaledWitness ==
    /\ pc = "combined"
    /\ Len(graded_lcia_results) = 2
    /\ DOMAIN graded_lcia_results[1].stage_values = {1}
    /\ DOMAIN graded_lcia_results[2].stage_values = {}
    /\ graded_lcia_results[1].stage_values[1].scaled_value = 600
    /\ graded_lcia_results[1].single_score.scaled_value = 600
    /\ graded_lcia_results[2].single_score.scaled_value = 0
    /\ <<"stage", 1>> \in DOMAIN recipe.graded_values
    /\ recipe.graded_values[<<"stage", 1>>].scaled_value = 600
    /\ recipe.graded_values[<<"single", 0>>].scaled_value < 600
    /\ <<"ic", 1>> \notin DOMAIN recipe.graded_values

RecipeResultCarriesProxy ==
    (pc = "combined" /\ Len(graded_lcia_results) >= 1) =>
        /\ recipe.error = "none"
        /\ recipe.value # {}
        /\ \A r \in recipe.value :
              /\ r.item_id = NoneItem
              /\ r.geo_id = NoneGeo
              /\ r.proxy_flag = (\E k \in 1..Len(graded_lcia_results) :
                                    graded_lcia_results[k].proxy_flag)

\* ----------------------------------------------- the recipe of a reordered list

\* The list with the items at positions i and j exchanged; every reordering
\* of a list is a sequence of such exchanges.
Swapped(list, i, j) ==
    [k \in 1..Len(list) |->
        IF k = i THEN list[j] ELSE IF k = j THEN list[i] ELSE list[k]]

\* The item results of the reordered recipes: every single score and stage
\* value, and a category either missing or of raw value 1.
ReorderShapes ==
    {shape \in GradedShapes :
        \A c \in DOMAIN shape.impact_category_values :
            shape.impact_category_values[c] = SampleGraded(1)}

\* The graded item results of a recipe and two positions of the list; lists
\* shorter than two items have nothing to exchange.
InitReorder ==
    /\ pc = "combine"
    /\ \E n \in 0..MaxItems :
          /\ \E shapes \in [1..n -> ReorderShapes] :
                graded_lcia_results = [k \in 1..n |-> GradedItemResult(k, shapes[k])]
          /\ \E i, j \in 1..MaxItems :
                /\ (n >= 2 /\ i < j /\ j <= n) \/ (n < 2 /\ i = 1 /\ j = 1)
                /\ call = [i |-> i, j |-> j]
    /\ recipe = Unused /\ outcome = Unused /\ data = Unused
    /\ SelIdle /\ GradeIdle /\ RunIdle

\* processors.calculate_recipe on the list as given and on the reordered list.
CalculateReordered ==
    /\ pc = "combine"
    /\ recipe' = calculate_recipe(graded_lcia_results)
    /\ outcome' = calculate_recipe(Swapped(graded_lcia_results, call.i, call.j))
    /\ pc' = "combined"
    /\ UNCHANGED <<selVars, gradeVars, runVars, graded_lcia_results, data, call>>

NextReorder == CalculateReordered

SpecReorder == InitReorder /\ [][NextReorder]_vars

Amounts == {1, 2}

\* The graded item results of a request: a single score and, for some of
\* them, the value of a category.
RequestShapes ==
    {[single_score |-> single, stage_values |-> <<>>, impact_category_values |-> ic] :
        single \in SampleValues, ic \in PartialFns(RecipeCategories, SampleValues)}

\* main.calculate_recipe once the items are graded: data.items holds the
\* amount of every item, graded_item_results one graded result per item.
InitRecipeRequest ==
    /\ pc = "combine"
    /\ \E n \in 1..MaxItems :
          \E shapes \in [1..n -> RequestShapes], amounts \in [1..n -> Amounts] :
              /\ graded_lcia_results = [k \in 1..n |-> GradedItemResult(k, shapes[k])]
              /\ data = [items |-> amounts]
    /\ recipe = Unused
    /\ SelIdle /\ GradeIdle /\ RunIdle /\ call = Unused /\ outcome = Unused

SpecRecipeRequest == InitRecipeRequest /\ [][NextRecipe]_vars

\* C14: the recipe's raw value of every category is the sum over the items of
\* the item's category value weighted by the item's amount in the recipe.
RecipeRawWeightedByAmount ==
    pc = "combined" =>
        \A d \in RecipeDims :
            d[1] = "ic" =>
                LET weighted == [k \in Suppliers(d) |->
                                   data.items[k]
                                     * GradedOf(graded_lcia_results[k], d).lcia_value]
                IN /\ d \in DOMAIN recipe.graded_values
                   /\ recipe.graded_values[d].lcia_value = SumOver(Suppliers(d), weighted)

\* ------------------------------------------------------- repeated grading

\* A caller that keeps what it passed (call), grades the same LCIAResult and
\* MinMaxValues twice, or combines a list of graded item results.
InitRepeat ==
    /\ SelIdle /\ RunIdle
    /\ data = Unused /\ outcome = Unused
    /\ \/ /\ pc = "grade"
          /\ lcia_result \in LCIAResults
          /\ min_max_values \in MinMaxFor(lcia_result)
          /\ call = [lcia_result |-> lcia_result, min_max_values |-> min_max_values]
          /\ scaled_value = Unused /\ graded = Unused
          /\ RecipeIdle
       \/ /\ pc = "combine"
          /\ \E n \in 1..MaxItems :
                \E shapes \in [1..n -> RequestShapes] :
                    graded_lcia_results = [k \in 1..n |-> GradedItemResult(k, shapes[k])]
          /\ call = [graded_lcia_results |-> graded_lcia_results]
          /\ recipe = Unused
          /\ GradeIdle

GradeFirst ==
    /\ pc = "grade"
    /\ outcome' = apply_grading_scheme(lcia_result, min_max_values)
    /\ lcia_result' = graded_arguments(lcia_result, min_max_values).lcia_result
    /\ min_max_values' = graded_arguments(lcia_result, min_max_values).min_max_values
    /\ pc' = "graded once"
    /\ UNCHANGED <<selVars, scaled_value, graded, runVars, recipeVars, data, call>>

GradeAgain ==
    /\ pc = "graded once"
    /\ graded' = apply_grading_scheme(lcia_result, min_max_values)
    /\ lcia_result' = graded_arguments(lcia_result, min_max_values).lcia_result
    /\ min_max_values' = graded_arguments(lcia_result, min_max_values).min_max_values
    /\ pc' = "graded twice"
    /\ UNCHANGED <<selVars, scaled_value, runVars, recipeVars, requestVars>>

CombineGraded ==
    /\ pc = "combine"
    /\ recipe' = calculate_recipe(graded_lcia_results)
    /\ graded_lcia_results' = combined_arguments(graded_lcia_results)
    /\ pc' = "combined"
    /\ UNCHANGED <<selVars, gradeVars, runVars, requestVars>>

NextRepeat == GradeFirst \/ GradeAgain \/ CombineGraded

SpecRepeat == InitRepeat /\ [][NextRepeat]_vars

OutOfRangeScaledRejected ==
    /\ pc = "graded" =>
          /\ \A d \in DOMAIN graded.scaled_values :
                ~(0 <= graded.scaled_values[d] /\ graded.scaled_values[d] <= 1000) =>
                    /\ graded.error = "ValueError"
                    /\ graded.value = {}
                    /\ d \notin DOMAIN graded.graded_values
          /\ \A d \in DOMAIN graded.graded_values :
                /\ graded.graded_values[d].scaled_value = graded.scaled_values[d]
                /\ graded.graded_values[d].scaled_value
                      = ScaledOf(lcia_result, min_max_values, d)
                /\ 0 <= graded.graded_values[d].scaled_value
                /\ graded.graded_values[d].scaled_value <= 1000
    /\ pc = "probed" =>
          (~(0 <= scaled_value /\ scaled_value <= 1000) =>
              /\ graded.error = "ValidationError"
              /\ graded.value = {}
              /\ graded.graded_values = <<>>)

\* A grading call whose single score was graded and stored and whose next
\* scaled value came out above 1: the call ended in ValueError.
OutOfRangeWitness ==
    /\ pc = "graded"
    /\ graded.error = "ValueError"
    /\ <<"single", 0>> \in DOMAIN graded.graded_values
    /\ \E d \in DOMAIN graded.scaled_values :
          /\ graded.scaled_values[d] > 1000
          /\ d \notin DOMAIN graded.graded_values

\* ------------------------------------------------------------ crud lookups

SchemeIDs == {1, 2}

SchemeNames == {"delphi_r0110", "ef31_nr"}

\* The weights a row of ImpactCategoryWeights can hold: 0, 0.0001, about a
\* half, 1 and 1.0001.
WeightValues == {0, 1, 4999, 5000, 5001, WeightOne, WeightOne + 1}

NoTables ==
    [schemes |-> <<>>, weights |-> <<>>, proxy |-> <<>>, single |-> <<>>,
     weighted |-> [i \in ItemIDs |-> <<>>]]

LookupCells == {<<1, 1>>, <<1, 2>>}

\* A lookup and the tables it reads; the tables a lookup does not read are
\* left empty.
InitLookup ==
    /\ pc = "lookup"
    /\ outcome = Unused /\ data = Unused
    /\ SelIdle /\ GradeIdle /\ RecipeIdle
    /\ other_db = Unused /\ items = Unused /\ results = Unused
    /\ bounds = Unused /\ other_bounds = Unused
    /\ \/ \E w \in [SchemeIDs -> PartialFns(ModelCategories, WeightValues)],
             scheme \in SchemeIDs \cup {3} :
             /\ db = [NoTables EXCEPT !.weights = w]
             /\ call = [fn |-> "get_ic_weights_by_scheme_id", scheme |-> scheme]
       \/ \E sch \in PartialFns(SchemeIDs, SchemeNames), name \in SchemeNames :
             /\ db = [NoTables EXCEPT !.schemes = sch]
             /\ call = [fn |-> "get_scheme_id_by_weight_string", weights_string |-> name]
       \/ \E pr \in PartialFns(ItemIDs, BOOLEAN), item \in ItemIDs, geo \in {1, 2} :
             /\ db = [NoTables EXCEPT !.proxy = pr]
             /\ call = [fn |-> "get_proxy_flag", item_id |-> item, geo_id |-> geo]
       \/ \E sg \in PartialFns(ItemIDs, 0..MaxValue), item \in ItemIDs :
             /\ db = [NoTables EXCEPT !.single = sg]
             /\ call = [fn |-> "fetch_result_from_single_scores", item_id |-> item]
       \/ \E w \in [ItemIDs -> PartialFns(LookupCells, 0..MaxValue)], item \in ItemIDs,
             expected \in (SUBSET LookupCells) \ {{}} :
             /\ db = [NoTables EXCEPT !.weighted = w]
             /\ call = [fn |-> "fetch_results_from_weighted_results", item_id |-> item,
                        expected_combinations |-> expected]

GetIcWeightsBySchemeId ==
    /\ pc = "lookup" /\ call.fn = "get_ic_weights_by_scheme_id"
    /\ outcome' = get_ic_weights_by_scheme_id(db, call.scheme)
    /\ pc' = "returned"
    /\ UNCHANGED <<selVars, gradeVars, runVars, recipeVars, data, call>>

GetSchemeIdByWeightString ==
    /\ pc = "lookup" /\ call.fn = "get_scheme_id_by_weight_string"
    /\ outcome' = get_scheme_id_by_weight_string(db, call.weights_string)
    /\ pc' = "returned"
    /\ UNCHANGED <<selVars, gradeVars, runVars, recipeVars, data, call>>

GetProxyFlag ==
    /\ pc = "lookup" /\ call.fn = "get_proxy_flag"
    /\ outcome' = get_proxy_flag(db, call.item_id, call.geo_id)
    /\ pc' = "returned"
    /\ UNCHANGED <<selVars, gradeVars, runVars, recipeVars, data, call>>

FetchResultFromSingleScores ==
    /\ pc = "lookup" /\ call.fn = "fetch_result_from_single_scores"
    /\ outcome' = fetch_result_from_single_scores(db, call.item_id)
    /\ pc' = "returned"
    /\ UNCHANGED <<selVars, gradeVars, runVars, recipeVars, data, call>>

FetchResultsFromWeightedResults ==
    /\ pc = "lookup" /\ call.fn = "fetch_results_from_weighted_results"
    /\ outcome' = fetch_results_from_weighted_results(
                      db, call.item_id, call.expected_combinations)
    /\ pc' = "returned"
    /\ UNCHANGED <<selVars, gradeVars, runVars, recipeVars, data, call>>

NextLookup ==
    \/ GetIcWeightsBySchemeId
    \/ GetSchemeIdByWeightString
    \/ GetProxyFlag
    \/ FetchResultFromSingleScores
    \/ FetchResultsFromWeightedResults

SpecLookup == InitLookup /\ [][NextLookup]_vars

\* The lookup of the call finds no row in the tables.
NoMatchingRow ==
    \/ /\ call.fn = "get_ic_weights_by_scheme_id"
       /\ \/ call.scheme \notin DOMAIN db.weights
          \/ \A c \in DOMAIN db.weights[call.scheme] : db.weights[call.scheme][c] <= 0
    \/ /\ call.fn = "get_scheme_id_by_weight_string"
       /\ \A id \in DOMAIN db.schemes : db.schemes[id] # call.weights_string
    \/ /\ call.fn = "get_proxy_flag"
       /\ \/ call.item_id \notin DOMAIN db.proxy
          \/ GeoOf[call.item_id] # call.geo_id
    \/ /\ call.fn = "fetch_result_from_single_scores"
       /\ call.item_id \notin DOMAIN db.single
    \/ /\ call.fn = "fetch_results_from_weighted_results"
       /\ \A p \in DOMAIN db.weighted[call.item_id] :
             \/ p[1] \notin {q[1] : q \in call.expected_combinations}
             \/ p[2] \notin {q[2] : q \in call.expected_combinations}

\* C17: a lookup that finds no matching row raises its typed not-found error
\* to the caller: NameNotFoundError from get_ic_weights_by_scheme_id,
\* get_scheme_id_by_weight_string and get_proxy_flag, MissingLCIAValueError
\* from fetch_result_from_single_scores and
\* fetch_results_from_weighted_results.
NotFoundErrorReachesCaller ==
    (pc = "returned" /\ NoMatchingRow) =>
        outcome.error =
            IF call.fn \in {"fetch_result_from_single_scores",
                            "fetch_results_from_weighted_results"}
            THEN "MissingLCIAValueError"
            ELSE "NameNotFoundError"

\* The positive weights of the scheme the call asks for.
PositiveWeights ==
    IF call.scheme \in DOMAIN db.weights
    THEN [c \in {c \in DOMAIN db.weights[call.scheme] : db.weights[call.scheme][c] > 0}
            |-> db.weights[call.scheme][c]]
    ELSE <<>>

\* C18: get_ic_weights_by_scheme_id returns a selection only for a scheme
\* whose positive weights each lie in [0,1] and sum to a value in
\* [0.9999, 1.0001], and the selection is those weights; for any other
\* weight set the call raises and returns nothing.
WeightsSelectionValid ==
    (pc = "returned" /\ call.fn = "get_ic_weights_by_scheme_id") =>
        LET valid == /\ \A c \in DOMAIN PositiveWeights :
                           0 <= PositiveWeights[c] /\ PositiveWeights[c] <= 10000
                     /\ 9999 <= SumWeights(PositiveWeights)
                     /\ SumWeights(PositiveWeights) <= 10001
        IN /\ outcome.error = "none" => (valid /\ outcome.value = {PositiveWeights})
           /\ ~valid => (outcome.error # "none" /\ outcome.value = {})

\* A scheme whose two positive weights, each within [0,1], sum to 1.0002:
\* the call raised.
WeightsRejectedWitness ==
    /\ pc = "returned" /\ call.fn = "get_ic_weights_by_scheme_id"
    /\ DOMAIN PositiveWeights = ModelCategories
    /\ \A c \in DOMAIN PositiveWeights : PositiveWeights[c] = 5001
    /\ outcome.error = "UnknownError"
    /\ outcome.cause = "ValueError"
    /\ outcome.value = {}

\* ------------------------------------------------- identifier construction

\* The integers an identifier is constructed with: around 0 and around the
\* upper end of every range.
IdProbes == (-3..20) \cup (245..252)

InitIds ==
    /\ pc = "construct"
    /\ call \in [cls : {"GeoID", "ImpactCategoryID", "LCStageID", "WeightingSchemeID"},
                  value : IdProbes]
    /\ outcome = Unused /\ data = Unused
    /\ SelIdle /\ GradeIdle /\ RunIdle /\ RecipeIdle

ConstructGeoID ==
    /\ pc = "construct" /\ call.cls = "GeoID"
    /\ outcome' = GeoID(call.value)
    /\ pc' = "constructed"
    /\ UNCHANGED <<selVars, gradeVars, runVars, recipeVars, data, call>>

ConstructImpactCategoryID ==
    /\ pc = "construct" /\ call.cls = "ImpactCategoryID"
    /\ outcome' = ImpactCategoryID(call.value)
    /\ pc' = "constructed"
    /\ UNCHANGED <<selVars, gradeVars, runVars, recipeVars, data, call>>

ConstructLCStageID ==
    /\ pc = "construct" /\ call.cls = "LCStageID"
    /\ outcome' = LCStageID(call.value)
    /\ pc' = "constructed"
    /\ UNCHANGED <<selVars, gradeVars, runVars, recipeVars, data, call>>

ConstructWeightingSchemeID ==
    /\ pc = "construct" /\ call.cls = "WeightingSchemeID"
    /\ outcome' = WeightingSchemeID(call.value)
    /\ pc' = "constructed"
    /\ UNCHANGED <<selVars, gradeVars, runVars, recipeVars, data, call>>

NextIds ==
    \/ ConstructGeoID
    \/ ConstructImpactCategoryID
    \/ ConstructLCStageID
    \/ ConstructWeightingSchemeID

SpecIds == InitIds /\ [][NextIds]_vars

\* C19: an identifier is constructed exactly for a value in its range and
\* rejected at construction otherwise: WeightingSchemeID for a positive
\* integer, GeoID in [1,249], ImpactCategoryID in [1,17], LCStageID in [1,6].
IdentifierRanges ==
    pc = "constructed" =>
        LET v == call.value
            in_range == IF call.cls = "GeoID" THEN 1 <= v /\ v <= 249
                        ELSE IF call.cls = "ImpactCategoryID" THEN 1 <= v /\ v <= 17
                        ELSE IF call.cls = "LCStageID" THEN 1 <= v /\ v <= 6
                        ELSE v >= 1
        IN /\ in_range => (outcome.error = "none" /\ outcome.value = {v})
           /\ ~in_range => (outcome.error # "none" /\ outcome.value = {})

\* ------------------------------------------- the weighting scheme of a request

\* The request bodies: no name, a known name, or a name outside the Literal;
\* no id or a positive id, with or without a row in WeightingSchemes.
RequestNames == {NoneName, PyStr("delphi_r0110"), PyStr("ef31_nr"), PyStr("bogus")}

RequestSchemeIDs == {NoneID} \cup {PyInt(id) : id \in SchemeIDs \cup {3}}

InitInput ==
    /\ pc = "request"
    /\ \E name \in RequestNames, id \in RequestSchemeIDs :
          call = [items |-> <<1>>, weighting_scheme_name |-> name,
                  weighting_scheme_id |-> id]
    /\ \E sch \in PartialFns(SchemeIDs, SchemeNames) :
          db = [NoTables EXCEPT !.schemes = sch]
    /\ outcome = Unused /\ data = Unused
    /\ SelIdle /\ GradeIdle /\ RecipeIdle
    /\ other_db = Unused /\ items = Unused /\ results = Unused
    /\ bounds = Unused /\ other_bounds = Unused

\* The request body is validated into the endpoint's `data: schemas.InputData`.
ConstructInputData ==
    /\ pc = "request"
    /\ outcome' = InputData(call)
    /\ IF InputData(call).error = "none"
       THEN /\ data' = CHOOSE d \in InputData(call).value : TRUE
            /\ pc' = "validated"
       ELSE /\ data' = data
            /\ pc' = "rejected"
    /\ UNCHANGED <<selVars, gradeVars, runVars, recipeVars, call>>

\* main.calculate_recipe, the resolution of the weighting scheme: the name is
\* looked up when only the id is set, then the id when only the name is.
ResolveWeightingScheme ==
    /\ pc = "validated"
    /\ LET by_id == get_name_by_id(db, data.weighting_scheme_id.value)
           named == IF ~Truthy(data.weighting_scheme_name)
                         /\ Truthy(data.weighting_scheme_id)
                         /\ by_id.error = "none"
                    THEN [data EXCEPT !.weighting_scheme_name =
                             PyStr(CHOOSE n \in by_id.value : TRUE)]
                    ELSE data
           name_failed == /\ ~Truthy(data.weighting_scheme_name)
                          /\ Truthy(data.weighting_scheme_id)
                          /\ by_id.error # "none"
           by_name == get_scheme_id_by_weight_string(db, named.weighting_scheme_name.value)
           id_wanted == ~Truthy(named.weighting_scheme_id)
                           /\ Truthy(named.weighting_scheme_name)
       IN IF name_failed
          THEN /\ outcome' = by_id /\ data' = data /\ pc' = "failed"
          ELSE IF id_wanted /\ by_name.error # "none"
          THEN /\ outcome' = by_name /\ data' = named /\ pc' = "failed"
          ELSE /\ outcome' = Outcome("none", "none", {})
               /\ data' = IF id_wanted
                           THEN [named EXCEPT !.weighting_scheme_id =
                                    [type |-> "WeightingSchemeID",
                                     value |-> CHOOSE i \in by_name.value : TRUE]]
                           ELSE named
               /\ pc' = "resolved"
    /\ UNCHANGED <<selVars, gradeVars, runVars, recipeVars, call>>

NextInput == ConstructInputData \/ ResolveWeightingScheme

SpecInput == InitInput /\ [][NextInput]_vars

MaxRaw == 6

\* Two calls of log_scale with the same bounds and normalization, for two
\* values in either order, inside or outside the bounds.
InitScale ==
    /\ pc = "scale"
    /\ \E value \in 0..MaxRaw, other_value \in 0..MaxRaw,
          min_value \in 0..MaxRaw, max_value \in 0..MaxRaw, normalization \in 1..4 :
          /\ min_value < max_value
          /\ call = [value |-> value, other_value |-> other_value,
                     min_value |-> min_value, max_value |-> max_value,
                     normalization |-> normalization]
    /\ outcome = Unused /\ data = Unused
    /\ SelIdle /\ GradeIdle /\ RunIdle /\ RecipeIdle

LogScale ==
    /\ pc = "scale"
    /\ outcome' =
          [scaled |-> log_scale(call.value, call.min_value, call.max_value,
                                call.normalization),
           other |-> log_scale(call.other_value, call.min_value, call.max_value,
                               call.normalization),
           unnormalized |-> log_scale(call.value, call.min_value, call.max_value, 1)]
    /\ pc' = "scaled"
    /\ UNCHANGED <<selVars, gradeVars, runVars, recipeVars, data, call>>

NextScale == LogScale

SpecScale == InitScale /\ [][NextScale]_vars

\* C21: for fixed min < max, log_scale does not decrease when value grows;
\* with normalization 1 it is 0 at value = min and 1 at value = max; with
\* normalization k it is the normalization-1 result u divided by sqrt(k), up
\* to the rounding of the division (a thousandth) and of the square root
\* (a thousandth of |u|).
LogScaleMonotone ==
    pc = "scaled" =>
        /\ call.value <= call.other_value => outcome.scaled <= outcome.other
        /\ call.value = call.min_value => outcome.unnormalized = 0
        /\ call.value = call.max_value => outcome.unnormalized = 1000
        /\ LET k == call.normalization
               u == IF outcome.unnormalized >= 0 THEN outcome.unnormalized
                    ELSE 0 - outcome.unnormalized
               r == IF outcome.scaled >= 0 THEN outcome.scaled ELSE 0 - outcome.scaled
               tol == 2 + (u \div 500)
               lo == IF r <= tol THEN 0 ELSE r - tol
           IN /\ outcome.unnormalized >= 0 <=> outcome.scaled >= 0
              /\ lo * lo * k <= u * u
              /\ u * u <= (r + tol) * (r + tol) * k

\* A value strictly between the bounds and a larger one above the maximum,
\* scaled with normalization 4: half of the unnormalized results.
LogScaleWitness ==
    /\ pc = "scaled"
    /\ call.normalization = 4
    /\ call.min_value < call.value /\ call.value < call.max_value
    /\ call.other_value > call.max_value
    /\ outcome.scaled > 0
    /\ outcome.scaled * 2 <= outcome.unnormalized
    /\ outcome.other > 500

\* ------------------------------------------------- the two result pipelines

\* Both pipelines on the same data source, selection and item list: the item
\* loop of main.calculate_recipe and get_results_bulk of
\* recipe_optimized.calculate_recipe_optimized, as verify_recipe_consistency
\* runs them side by side.
VerifyConsistency ==
    /\ pc = "fetch"
    /\ results' = get_results_each(db, items, impact_categories, lc_stages,
                                   ResultsOutcome("none", "none", <<>>, {}, <<>>, <<>>))
    /\ outcome' = get_results_bulk(db, items, impact_categories, lc_stages)
    /\ pc' = "compared"
    /\ UNCHANGED <<selVars, gradeVars, db, other_db, items, bounds, other_bounds, recipeVars, data, call>>

NextConsistency == VerifyConsistency

SpecConsistency == InitAgg /\ [][NextConsistency]_vars

\* C22: get_results_bulk fails exactly when the per-item path fails, and
\* otherwise returns, in input order, for every item the stage values, the
\* category values, the normalization counts and the single score that
\* processors.get_results returns for that item.
BulkEqualsPerItem ==
    pc = "compared" =>
        /\ (outcome.error = "none") <=> (results.error = "none")
        /\ (outcome.error = "none" /\ results.error = "none") =>
              /\ Len(outcome.value) = Len(results.value)
              /\ \A k \in 1..Len(outcome.value) :
                    LET bulk == outcome.value[k]
                        each == results.value[k]
                    IN /\ bulk.item_id = each.item_id
                       /\ bulk.single_score = each.single_score
                       /\ bulk.stage_values = each.stage_values
                       /\ bulk.impact_category_values = each.impact_category_values
                       /\ bulk.ic_normalization = each.ic_normalization
                       /\ bulk.lc_normalization = each.lc_normalization

\* ------------------------------------------------------ the traceback files

\* The limits MAX_TRACEBACK_FILES is configured with: 0..MaxKeep.
MaxKeep == 2

\* The number of exceptions a run handles.
MaxHandled == 4

\* A file of logs/tracebacks: traceback_<name>.log, numbered in the order of
\* creation, with the st_ctime the file system stamped on it.
TracebackFile(name, st_ctime) == [name |-> name, st_ctime |-> st_ctime]

\* The orders in which traceback_dir.glob can list the files of a directory.
GlobOrders(directory) ==
    {listing \in [1..Cardinality(directory) -> directory] : Range(listing) = directory}

\* list.sort(key=lambda f: f.stat().st_ctime): a stable sort, files of equal
\* st_ctime keep the order of the listing.
InsertByCtime(sorted, file) ==
    LET k == Cardinality({i \in 1..Len(sorted) : sorted[i].st_ctime <= file.st_ctime})
    IN SubSeq(sorted, 1, k) \o <<file>> \o SubSeq(sorted, k + 1, Len(sorted))

RECURSIVE SortByCtime(_)
SortByCtime(files) ==
    IF files = <<>> THEN <<>>
    ELSE InsertByCtime(SortByCtime(SubSeq(files, 1, Len(files) - 1)), files[Len(files)])

\* exception_handlers.manage_traceback_files on a listing of the directory:
\* the files it unlinks.
manage_traceback_files(listing, MAX_TRACEBACK_FILES) ==
    LET files == SortByCtime(listing)
    IN IF Len(files) > MAX_TRACEBACK_FILES
       THEN Range(SubSeq(files, 1, Len(files) - MAX_TRACEBACK_FILES))
       ELSE {}

\* data is the content of logs/tracebacks, call the settings, the clock of
\* the file system and the number of files created so far.  The directory
\* starts empty or with files left by earlier runs.
InitTracebacks ==
    /\ pc = "serve"
    /\ \E limit \in 0..MaxKeep, left \in 0..(MaxKeep + 1) :
          /\ call = [MAX_TRACEBACK_FILES |-> limit, clock |-> left + 1, created |-> left]
          /\ data = {TracebackFile(n, n) : n \in 1..left}
    /\ outcome = Unused
    /\ SelIdle /\ GradeIdle /\ RunIdle /\ RecipeIdle

\* exception_handlers.handle_exception: the traceback is written to a new
\* file, then manage_traceback_files trims the directory.  The clock of the
\* file system may not have advanced since the last file was stamped.
HandleException ==
    /\ pc \in {"serve", "handled"}
    /\ call.created < MaxKeep + 1 + MaxHandled
    /\ \E tick \in 0..1 :
          LET now == call.clock + tick
              traceback_filename == TracebackFile(call.created + 1, now)
              written == data \cup {traceback_filename}
          IN \E listing \in GlobOrders(written) :
                LET deleted == manage_traceback_files(listing, call.MAX_TRACEBACK_FILES)
                IN /\ data' = written \ deleted
                   /\ call' = [call EXCEPT !.clock = now, !.created = @ + 1]
                   /\ outcome' = [written |-> written, deleted |-> deleted]
    /\ pc' = "handled"
    /\ UNCHANGED <<selVars, gradeVars, runVars, recipeVars>>

NextTracebacks == HandleException

SpecTracebacks == InitTracebacks /\ [][NextTracebacks]_vars

\* C25: after handle_exception the directory holds at most
\* MAX_TRACEBACK_FILES traceback files, and the files kept are the most
\* recently created ones: every deleted file was created before every file
\* that was kept.
TracebacksKeepMostRecent ==
    pc = "handled" =>
        /\ Cardinality(data) <= call.MAX_TRACEBACK_FILES
        /\ \A kept \in data : \A gone \in outcome.deleted : gone.name < kept.name

\* ----------------------------------------------- the response of a request

\* The item lists of the requests: none, one or both items, in either order.
ResponseRequests == Requests \cup {<<"i2">>, <<"i2", "i1">>}

InitResponse ==
    /\ pc = "request"
    /\ impact_categories = SortedSeq(ModelCategories)
    /\ lc_stages = BoundsStages
    /\ db \in BoundsDBs
    /\ items \in ResponseRequests
    /\ expected_combinations = Unused
    /\ other_db = Unused /\ other_bounds = Unused
    /\ results = NoResults /\ bounds = NoBounds /\ graded = <<>>
    /\ lcia_result = Unused /\ min_max_values = Unused /\ scaled_value = Unused
    /\ RecipeIdle /\ RequestIdle

\* recipe_optimized.calculate_recipe_optimized from the bulk fetch to the
\* response: the item results, then the bounds, then the grading of every
\* item, each step only when the one before raised nothing; outcome is the
\* response or the error raised.
CalculateRecipeOptimized ==
    /\ pc = "request"
    /\ results' = get_results_bulk(db, items, impact_categories, lc_stages)
    /\ bounds' = IF results'.error = "none"
                 THEN bulk_fetch_min_max_values(db, impact_categories, lc_stages)
                 ELSE NoBounds
    /\ graded' = IF results'.error = "none" /\ bounds'.error = "none"
                 THEN grade_each(results'.value, CHOOSE m \in bounds'.value : TRUE)
                 ELSE <<>>
    /\ outcome' = output_data(items, results', bounds', graded')
    /\ pc' = "responded"
    /\ UNCHANGED <<selVars, lcia_result, min_max_values, scaled_value, db, other_db, items, other_bounds, recipeVars, data, call>>

NextResponse == CalculateRecipeOptimized

SpecResponse == InitResponse /\ [][NextResponse]_vars

\* The item results were fetched, the bounds are valid and every value of
\* every item was scaled and graded.
EveryItemGraded ==
    /\ results.error = "none"
    /\ bounds.error = "none"
    /\ Len(graded) = Len(items)
    /\ \A k \in 1..Len(graded) :
          DOMAIN graded[k].graded_values = Range(GradingOrder(results.value[k]))

\* C30: the response of a recipe calculation has exactly one entry of "Item
\* Results" per input item, and the entry under an item's key holds the
\* graded values and the proxy flag of that same item, for any number and
\* order of the items.
ResponseEntriesMatchItems ==
    (pc = "responded" /\ Len(items) >= 1 /\ EveryItemGraded) =>
        /\ outcome.error = "none"
        /\ DOMAIN outcome.item_results = Range(items)
        /\ \A k \in 1..Len(items) :
              LET entry == outcome.item_results[items[k]]
                  values == graded[k].graded_values
              IN /\ entry.contains_proxy = db.proxy[items[k]]
                 /\ results.value[k].item_id = items[k]
                 /\ entry.single_score = values[<<"single", 0>>]
                 /\ \A t \in DOMAIN entry.stage_values :
                       entry.stage_values[t] = values[<<"stage", t>>]
                 /\ \A c \in DOMAIN entry.impact_category_values :
                       entry.impact_category_values[c] = values[<<"ic", c>>]

\* ---------------------------------------------------------- stored grades

\* Every GradedLCIAValue the engine builds: by apply_grading_scheme for an
\* item, by the constructor alone, and by calculate_recipe for a recipe.
SpecGrades == (InitGrade \/ InitRecipe) /\ [][NextGrade \/ NextRecipe]_vars

\* The grade of g is the bucket its scaled value lies in.
InBucket(g) ==
    /\ g.grade \in {"A", "B", "C", "D", "E"}
    /\ g.grade = "A" <=> g.scaled_value < 100
    /\ g.grade = "B" <=> (100 <= g.scaled_value /\ g.scaled_value < 300)
    /\ g.grade = "C" <=> (300 <= g.scaled_value /\ g.scaled_value < 500)
    /\ g.grade = "D" <=> (500 <= g.scaled_value /\ g.scaled_value < 700)
    /\ g.grade = "E" <=> g.scaled_value >= 700

=============================================================================
